---- MODULE Spec2Model ----
(***************************************************************************)
(* Model of the conversational weather app (weather-app.ts main loop and   *)
(* WeatherService.handleConversationTurn), the provider selector and the   *)
(* Gemini message translation of judithsanchez/ai-providers-api, and of   *)
(* the completion calls of the three adapters, interpretWeatherCode, the   *)
(* recipe creator and flashcard generator, the storytelling app, the       *)
(* start of the process of a multi-provider app and extractCityNameSimple  *)
(* on its own.                                                             *)
(*                                                                         *)
(* Text is modelled as a sequence of characters.  Three fixed phrases the  *)
(* code searches for are single elements of a reply: TRIGGER, ELLIPSIS and *)
(* WHICH.  A reply holds no other dots and no line breaks.                 *)
(***************************************************************************)
EXTENDS Integers, Sequences, FiniteSets, TLC

\* ------------------------------------------------------------------ bounds
MaxReplyLen == 4
MaxMsgs == 4

\* ------------------------------------------------------------ absent values
\* null / undefined where a text is expected: a one-element sequence that is
\* no text of the model.
Null == <<"<null>">>

\* null where an object is expected
NullResult == [isNull |-> TRUE]

\* JavaScript truthiness of a string-or-null value.
Truthy(v) == v # Null /\ v # <<>>

\* ----------------------------------------------------------- text helpers
Range(s) == {s[i] : i \in 1..Len(s)}

SeqsUpTo(S, n) == UNION {[1..k -> S] : k \in 0..n}

IsSpace(c) == c \in {" ", "\n", "\t"}

RECURSIVE TrimStart(_)
TrimStart(s) ==
    IF s # <<>> /\ IsSpace(Head(s)) THEN TrimStart(Tail(s)) ELSE s

RECURSIVE TrimEnd(_)
TrimEnd(s) ==
    IF s # <<>> /\ IsSpace(s[Len(s)]) THEN TrimEnd(SubSeq(s, 1, Len(s) - 1)) ELSE s

\* String.prototype.trim
Trim(s) == TrimEnd(TrimStart(s))

\* String.prototype.startsWith
StartsWith(s, p) == Len(p) <= Len(s) /\ SubSeq(s, 1, Len(p)) = p

Uppers == <<"A","B","C","D","E","F","G","H","I","J","K","L","M",
            "N","O","P","Q","R","S","T","U","V","W","X","Y","Z">>
Lowers == <<"a","b","c","d","e","f","g","h","i","j","k","l","m",
            "n","o","p","q","r","s","t","u","v","w","x","y","z">>

IsUpper(c) == \E i \in 1..Len(Uppers) : Uppers[i] = c

ToLowerChar(c) ==
    IF IsUpper(c) THEN Lowers[CHOOSE i \in 1..Len(Uppers) : Uppers[i] = c] ELSE c

\* String.prototype.toLowerCase
ToLowerCase(s) == [i \in 1..Len(s) |-> ToLowerChar(s[i])]

RECURSIVE SplitWs(_)
\* String.prototype.split(/\s+/) of a trimmed text
SplitWs(s) ==
    IF \A i \in 1..Len(s) : ~IsSpace(s[i]) THEN <<s>>
    ELSE LET i == CHOOSE k \in 1..Len(s) :
                      IsSpace(s[k]) /\ \A m \in 1..(k - 1) : ~IsSpace(s[m])
         IN  <<SubSeq(s, 1, i - 1)>> \o SplitWs(TrimStart(SubSeq(s, i, Len(s))))

\* ------------------------------------------- extractCityNameSimple (cli-utils)
commonStarts ==
    { <<"w","h","a","t">>, <<"w","h","a","t","'","s">>, <<"i","s">>,
      <<"g","e","t">>, <<"f","e","t","c","h">>, <<"s","h","o","w">>,
      <<"m","e">> }

\* word.match(/^[A-Z]/)
StartsCapital(word) == word # <<>> /\ IsUpper(word[1])

RECURSIVE JoinWords(_, _, _)
\* words[i] + ' ' + ... + words[j - 1]
JoinWords(words, i, j) ==
    IF i + 1 >= j THEN words[i]
    ELSE words[i] \o <<" ">> \o JoinWords(words, i + 1, j)

RECURSIVE RunEnd(_, _)
\* the inner while loop: first index from j on whose word is not capitalized
RunEnd(words, j) ==
    IF j <= Len(words) /\ StartsCapital(words[j]) THEN RunEnd(words, j + 1) ELSE j

RECURSIVE PotentialCities(_, _)
\* the for loop over words, from index i (1 is the first word)
PotentialCities(words, i) ==
    IF i > Len(words) THEN <<>>
    ELSE IF StartsCapital(words[i])
            /\ (i > 1 \/ ToLowerCase(words[i]) \notin commonStarts)
         THEN LET j == RunEnd(words, i + 1)
              IN  <<JoinWords(words, i, j)>> \o PotentialCities(words, j)
         ELSE PotentialCities(words, i + 1)

\* an insertion that puts x before its equals: the latest of a tie comes first
\* (mutant)
InsertByLengthBeforeEquals(sorted, x) ==
    LET k == Cardinality({i \in 1..Len(sorted) : Len(sorted[i]) > Len(x)})
    IN  SubSeq(sorted, 1, k) \o <<x>> \o SubSeq(sorted, k + 1, Len(sorted))

\* insertion of x into a list sorted by decreasing length, after its equals
InsertByLength(sorted, x) ==
    LET k == Cardinality({i \in 1..Len(sorted) : Len(sorted[i]) >= Len(x)})
    IN  SubSeq(sorted, 1, k) \o <<x>> \o SubSeq(sorted, k + 1, Len(sorted))

RECURSIVE SortByLengthDesc(_)
\* potentialCities.sort((a, b) => b.length - a.length), a stable sort
SortByLengthDesc(list) ==
    IF list = <<>> THEN <<>>
    ELSE InsertByLength(SortByLengthDesc(SubSeq(list, 1, Len(list) - 1)),
                        list[Len(list)])

extractCityNameSimple(input) ==
    LET words == SplitWs(Trim(input))
        potentialCities == PotentialCities(words, 1)
    IN  IF Len(potentialCities) > 0
        THEN SortByLengthDesc(potentialCities)[1]
        ELSE Null

\* --------------------------------------------------- reply text (part_002)
TRIGGER == "Okay, fetching weather for"
ELLIPSIS == "..."
WHICH == "Which city"

\* aiResponseText.startsWith('Okay, fetching weather for')
FetchTriggerOf(text) == StartsWith(text, <<TRIGGER>>)

\* The regular expression /Okay, fetching weather for (.*?)\.\.\./ matched at
\* position i: the phrase, one space, then the shortest run of characters
\* other than line breaks that is followed by an ellipsis.
MatchAt(text, i) ==
    /\ i + 2 <= Len(text)
    /\ text[i] = TRIGGER
    /\ text[i + 1] = " "
    /\ \E j \in (i + 2)..Len(text) :
          /\ text[j] = ELLIPSIS
          /\ \A m \in (i + 2)..(j - 1) : text[m] # "\n"

GroupAt(text, i) ==
    LET j == CHOOSE k \in (i + 2)..Len(text) :
                 /\ text[k] = ELLIPSIS
                 /\ \A m \in (i + 2)..(k - 1) : text[m] # ELLIPSIS
    IN  SubSeq(text, i + 2, j - 1)

\* aiResponseText.match(...): the first group of the leftmost match, or Null
MatchCity(text) ==
    IF \E i \in 1..Len(text) : MatchAt(text, i)
    THEN LET i == CHOOSE k \in 1..Len(text) :
                      MatchAt(text, k) /\ \A m \in 1..(k - 1) : ~MatchAt(text, m)
         IN  GroupAt(text, i)
    ELSE Null

\* aiResponseText.includes('Which city')
IncludesWhichCity(text) == WHICH \in Range(text)

\* CityToFetch with the heuristic tried first (mutant)
CityToFetchHeuristicFirst(text, potentialCity, currentContextArg) ==
    IF Truthy(potentialCity) /\ ~Truthy(currentContextArg)
    THEN potentialCity
    ELSE IF FetchTriggerOf(text) /\ Truthy(MatchCity(text))
         THEN MatchCity(text)
         ELSE Null

\* CityToFetch without the check that no context is held (mutant)
CityToFetchIgnoresContext(text, potentialCity, currentContextArg) ==
    IF FetchTriggerOf(text)
    THEN IF Truthy(MatchCity(text)) THEN MatchCity(text) ELSE Null
    ELSE IF Truthy(potentialCity) THEN potentialCity ELSE Null

\* lines 188-202: the location to fetch, or Null
CityToFetch(text, potentialCity, currentContextArg) ==
    IF FetchTriggerOf(text)
    THEN IF Truthy(MatchCity(text)) THEN MatchCity(text) ELSE Null
    ELSE IF Truthy(potentialCity) /\ ~Truthy(currentContextArg)
         THEN potentialCity
         ELSE Null

\* ClassifyReply that looks at the context before the question (mutant)
ClassifyReplyContextFirst(text, currentContextArg) ==
    IF Truthy(currentContextArg) /\ ~FetchTriggerOf(text)
    THEN [type |-> "answer", text |-> text, summary |-> Null]
    ELSE IF IncludesWhichCity(text)
         THEN [type |-> "question", text |-> text, summary |-> Null]
         ELSE [type |-> "info", text |-> text, summary |-> Null]

\* ClassifyReply that never answers from the context (mutant)
ClassifyReplyNoAnswer(text, currentContextArg) ==
    IF IncludesWhichCity(text)
    THEN [type |-> "question", text |-> text, summary |-> Null]
    ELSE [type |-> "info", text |-> text, summary |-> Null]

\* lines 240-248: the result when no location is fetched
ClassifyReply(text, currentContextArg) ==
    IF IncludesWhichCity(text)
    THEN [type |-> "question", text |-> text, summary |-> Null]
    ELSE IF Truthy(currentContextArg) /\ ~FetchTriggerOf(text)
         THEN [type |-> "answer", text |-> text, summary |-> Null]
         ELSE [type |-> "info", text |-> text, summary |-> Null]

\* ------------------------------------------- interpretWeatherCode (part_002)
\* an interpreter whose snow and shower ranges have no gaps (mutant)
interpretWeatherCodeNoGaps(code) ==
    IF code = 0 THEN <<"Clear sky">>
    ELSE IF code = 1 THEN <<"Mainly clear">>
    ELSE IF code = 2 THEN <<"Partly cloudy">>
    ELSE IF code = 3 THEN <<"Overcast">>
    ELSE IF code >= 45 /\ code <= 48 THEN <<"Fog">>
    ELSE IF code >= 51 /\ code <= 55 THEN <<"Drizzle">>
    ELSE IF code >= 56 /\ code <= 57 THEN <<"Freezing Drizzle">>
    ELSE IF code >= 61 /\ code <= 65 THEN <<"Rain">>
    ELSE IF code >= 66 /\ code <= 67 THEN <<"Freezing Rain">>
    ELSE IF code >= 71 /\ code <= 76 THEN <<"Snow fall">>
    ELSE IF code = 77 THEN <<"Snow grains">>
    ELSE IF code >= 80 /\ code <= 84 THEN <<"Rain showers">>
    ELSE IF code >= 85 /\ code <= 86 THEN <<"Snow showers">>
    ELSE IF code >= 95 /\ code <= 99 THEN <<"Thunderstorm">>
    ELSE <<"Unknown (", ToString(code), ")">>

interpretWeatherCode(code) ==
    IF code = 0 THEN <<"Clear sky">>
    ELSE IF code = 1 THEN <<"Mainly clear">>
    ELSE IF code = 2 THEN <<"Partly cloudy">>
    ELSE IF code = 3 THEN <<"Overcast">>
    ELSE IF code >= 45 /\ code <= 48 THEN <<"Fog">>
    ELSE IF code >= 51 /\ code <= 55 THEN <<"Drizzle">>
    ELSE IF code >= 56 /\ code <= 57 THEN <<"Freezing Drizzle">>
    ELSE IF code >= 61 /\ code <= 65 THEN <<"Rain">>
    ELSE IF code >= 66 /\ code <= 67 THEN <<"Freezing Rain">>
    ELSE IF code >= 71 /\ code <= 75 THEN <<"Snow fall">>
    ELSE IF code = 77 THEN <<"Snow grains">>
    ELSE IF code >= 80 /\ code <= 82 THEN <<"Rain showers">>
    ELSE IF code >= 85 /\ code <= 86 THEN <<"Snow showers">>
    ELSE IF code >= 95 /\ code <= 99 THEN <<"Thunderstorm">>
    ELSE <<"Unknown (", ToString(code), ")">>

\* weatherDescription.toLowerCase()
LowerPhrase(p) ==
    CASE p = "Clear sky" -> "clear sky"
      [] p = "Mainly clear" -> "mainly clear"
      [] p = "Partly cloudy" -> "partly cloudy"
      [] p = "Overcast" -> "overcast"
      [] p = "Fog" -> "fog"
      [] p = "Drizzle" -> "drizzle"
      [] p = "Freezing Drizzle" -> "freezing drizzle"
      [] p = "Rain" -> "rain"
      [] p = "Freezing Rain" -> "freezing rain"
      [] p = "Snow fall" -> "snow fall"
      [] p = "Snow grains" -> "snow grains"
      [] p = "Rain showers" -> "rain showers"
      [] p = "Snow showers" -> "snow showers"
      [] p = "Thunderstorm" -> "thunderstorm"
      [] p = "Unknown (" -> "unknown ("
      [] OTHER -> p

LowerDescription(d) ==
    IF Len(d) = 1 THEN <<LowerPhrase(d[1])>>
    ELSE <<LowerPhrase(d[1]), d[2], d[3]>>

\* lines 226-233
FormattedSummary(geoResult, weatherResult) ==
    <<"The current weather in ", geoResult.name, " is ">>
    \o LowerDescription(interpretWeatherCode(weatherResult.weathercode))
    \o <<" with a temperature of ", ToString(weatherResult.temperature),
         " C and wind speed of ", ToString(weatherResult.windspeed), " km/h.">>

\* lines 209-212 and 220-223
NoCoordinatesText(cityToFetch) ==
    <<"Sorry, I couldn't find coordinates for \"">> \o cityToFetch
    \o <<"\". Please check the spelling or try again.">>

NoWeatherText(geoResult) ==
    <<"Sorry, I couldn't fetch the current weather data for ", geoResult.name, ".">>

\* lines 254-257
ErrorResult ==
    [type |-> "error",
     text |-> <<"An error occurred while processing your request.">>,
     summary |-> Null]

\* ----------------------------------- translateToGeminiMessages (part_001)
SelectNonSystem(msgs) == SelectSeq(msgs, LAMBDA msg : msg.role # "system")

RECURSIVE TranslateLoopNoMerge(_, _)
\* a loop that pushes every message as a turn of its own (mutant)
TranslateLoopNoMerge(filtered, history) ==
    IF filtered = <<>> THEN history
    ELSE LET message == Head(filtered)
             role == IF message.role = "assistant" THEN "model" ELSE "user"
             text == message.content
         IN  IF ~Truthy(text)
             THEN TranslateLoopNoMerge(Tail(filtered), history)
             ELSE TranslateLoopNoMerge(Tail(filtered),
                    Append(history, [role |-> role, text |-> text]))

RECURSIVE TranslateLoop(_, _)
\* the for loop of lines 30-51 over the filtered messages
TranslateLoop(filtered, history) ==
    IF filtered = <<>> THEN history
    ELSE LET message == Head(filtered)
             role == IF message.role = "assistant" THEN "model" ELSE "user"
             text == message.content
             n == Len(history)
         IN  IF ~Truthy(text)
             THEN TranslateLoop(Tail(filtered), history)
             ELSE IF n > 0 /\ history[n].role = role
                  THEN TranslateLoop(Tail(filtered),
                         [history EXCEPT ![n].text = @ \o <<"\n">> \o text])
                  ELSE TranslateLoop(Tail(filtered),
                         Append(history, [role |-> role, text |-> text]))

\* the translation without the filter on system messages (mutant)
translateKeepsSystem(msgs) == TranslateLoop(msgs, <<>>)

translateToGeminiMessages(msgs) ==
    TranslateLoop(SelectNonSystem(msgs), <<>>)

\* a check on the final turn that accepts a model turn (mutant)
GeminiFinalOkAnyRole(translated) ==
    /\ Len(translated) > 0
    /\ Truthy(translated[Len(translated)].text)

\* lines 109-120: the check on the final turn
GeminiFinalOk(history) ==
    /\ Len(history) > 0
    /\ history[Len(history)].role = "user"
    /\ Truthy(history[Len(history)].text)

\* ------------------------------------------------------------ the adapters
Providers == {"OpenAI", "Deepseek", "Gemini"}

\* Any other implementation of the AIProvider interface handed to the
\* WeatherService constructor.
Other == "Other"

Threw == <<"<threw>">>

\* getProviderInfo().supportedModels, or Threw
SupportedModelsOf(provider) ==
    CASE provider = "OpenAI" -> {<<"gpt-4", "gpt-3.5-turbo">>}
      [] provider = "Deepseek" -> {<<"deepseek-chat", "deepseek-reasoner">>}
      [] provider = "Gemini" ->
            {<<"gemini-1.5-flash-latest", "gemini-1.5-flash-latest",
               "gemini-1.5-pro-latest">>}
      [] OTHER -> {<<>>, <<"other-model">>, Threw}

\* providerInfo.supportedModels[0] || 'default-model-error'
ModelToUse(supportedModels) ==
    IF Len(supportedModels) > 0 /\ supportedModels[1] # ""
    THEN supportedModels[1]
    ELSE "default-model-error"

\* --------------------------------------------------------------- the state
VARIABLES
    pc,              \* where main (or the operation under study) stands
    env,             \* the environment variables that are set
    providerArg,     \* the text after --provider=, or NoFlag
    aiProvider,      \* the adapter main selected
    currentContext,  \* main: the weather summary context, or Null
    userInput,       \* main: the last line read
    isFirstTurn,     \* main
    inputForAI,      \* handleConversationTurn: userInput parameter
    contextArg,      \* handleConversationTurn: currentContext parameter
    modelToUse,      \* handleConversationTurn
    aiResponseText,  \* handleConversationTurn
    cityToFetch,     \* handleConversationTurn
    geoResult,       \* handleConversationTurn
    weatherResult,   \* handleConversationTurn
    result,          \* the TurnResult main received
    calls,           \* the calls the turn has made so far, in order
    liveSummary,     \* history: the summary of the latest `weather` turn while
                     \* every turn since was an `answer`, Null otherwise
    messages,        \* translateToGeminiMessages: its argument
    history,         \* translateToGeminiMessages: its result
    adapter,         \* the adapter whose method is called
    streaming,       \* TRUE for createChatCompletionStream
    sent,            \* the requests dispatched to the backend, in order
    reply,           \* the message content of the backend's completion reply
    chunks,          \* the chunks of the open backend stream not yet read
    accumulatedContent, \* createChatCompletionStream (part_001 210)
    yielded,         \* the ChatResponses the generator has yielded, in order
    status,          \* the call: "pending", "returned" or "threw"
    response,        \* the ChatResponse createChatCompletion returned
    code,            \* interpretWeatherCode: its argument
    description,     \* interpretWeatherCode: its result
    app,             \* the structured-output app that runs
    retries,         \* getRecipeJson (part_003 92)
    apiCalls,        \* the number of backend calls the app has made
    replies,         \* the backend's replies to the app's calls, in order
    recipeJson,      \* what getRecipeJson or generateFlashcards gave main
    printed,         \* the closing message main printed
    currentTemperature, \* storytelling app, in tenths
    aiSentence,      \* getAIResponse
    keepGoing,       \* storytelling app: main
    program,         \* the multi-provider app that was started
    stderr,          \* the errors reported on the console, in order
    rlOpen           \* the readline interface of cli-utils exists and is open

startupVars == <<env, providerArg>>
mainVars == <<aiProvider, currentContext, userInput, isFirstTurn>>
turnVars == <<inputForAI, contextArg, modelToUse, aiResponseText, cityToFetch,
              geoResult, weatherResult, result, calls>>
historyVars == <<liveSummary>>
geminiVars == <<messages, history>>
adapterVars == <<adapter, streaming, sent, reply, chunks, accumulatedContent,
                 yielded, status, response>>
codeVars == <<code, description>>
structuredVars == <<app, retries, apiCalls, replies, recipeJson, printed>>
storyVars == <<currentTemperature, aiSentence, keepGoing>>
processVars == <<program, stderr, rlOpen>>
laterVars == <<adapterVars, codeVars, structuredVars, storyVars, processVars>>
weatherVars == <<startupVars, mainVars, turnVars, historyVars>>
notAdapterVars == <<weatherVars, codeVars, structuredVars, storyVars, processVars>>
vars == <<pc, startupVars, mainVars, turnVars, historyVars, geminiVars, laterVars>>

NoReply == <<"<no reply>">>

\* no adapter method is under study
AdapterIdle ==
    /\ adapter = "none"
    /\ streaming = FALSE
    /\ sent = <<>>
    /\ reply = NoReply
    /\ chunks = <<>>
    /\ accumulatedContent = <<>>
    /\ yielded = <<>>
    /\ status = "pending"
    /\ response = NullResult

\* interpretWeatherCode is not under study
CodeIdle ==
    /\ code = 0
    /\ description = <<>>

NotReturned == [isNull |-> FALSE, pending |-> TRUE]
ThrewError == [isNull |-> FALSE, pending |-> FALSE]

\* no structured-output app runs
StructuredIdle ==
    /\ app = "none"
    /\ retries = 0
    /\ apiCalls = 0
    /\ replies = <<>>
    /\ recipeJson = NotReturned
    /\ printed = "nothing"

\* the storytelling app does not run: weather-service.ts 217
StoryIdle ==
    /\ currentTemperature = 7
    /\ aiSentence = <<>>
    /\ keepGoing = TRUE

\* the process of the weather app, its modules loaded
ProcessIdle ==
    /\ program = "weather-app"
    /\ stderr = <<>>
    /\ rlOpen = TRUE

LaterIdle == AdapterIdle /\ CodeIdle /\ StructuredIdle /\ StoryIdle /\ ProcessIdle

NoFlag == <<"<no flag>">>
NoResultYet == [type |-> "none", text |-> Null, summary |-> Null]
AllEnv == {"OPENAI_API_KEY", "DEEPSEEK_API_KEY", "DEEPSEEK_BASE_URL", "GEMINI_API_KEY"}

\* ---------------------------------------------------------- the input sets
ReplyChars == {TRIGGER, " ", "x", ELLIPSIS, WHICH}
Replies == SeqsUpTo(ReplyChars, MaxReplyLen)

InputChars == {"P", "s"}
BlankLines == {<<>>, <<" ">>}
QuitLines == {<<"/","q","u","i","t">>, <<"/","Q","U","I","T">>}
\* a line is empty, blank, one word of one letter, or /quit
Lines == {<<c>> : c \in InputChars} \cup BlankLines \cup QuitLines

Hello == <<"H","e","l","l","o">>

GeoResults == {[name |-> "Paris", latitude |-> 48, longitude |-> 2]}
WeatherResults ==
    {[temperature |-> 20, weathercode |-> c, windspeed |-> 5] : c \in {0, 12}}

\* ---------------------------------------------------- the messages of a turn
systemPrompt == <<"You are a friendly weather assistant. ...">>

\* TurnMessages with the CONTEXT message in the user role (mutant)
TurnMessagesContextAsUser(userInputArg, currentContextArg) ==
    <<[role |-> "system", content |-> systemPrompt]>>
    \o (IF Truthy(currentContextArg)
        THEN <<[role |-> "user", content |-> <<"CONTEXT: ">> \o currentContextArg]>>
        ELSE <<>>)
    \o <<[role |-> "user", content |-> userInputArg]>>

\* lines 150-157
TurnMessages(userInputArg, currentContextArg) ==
    <<[role |-> "system", content |-> systemPrompt]>>
    \o (IF Truthy(currentContextArg)
        THEN <<[role |-> "system", content |-> <<"CONTEXT: ">> \o currentContextArg]>>
        ELSE <<>>)
    \o <<[role |-> "user", content |-> userInputArg]>>

\* what createChatCompletion can do for these messages, as the service sees it
CompletionOutcomes(provider, msgs) ==
    {[kind |-> "rejected", content |-> Null]}
    \cup (IF provider = "Gemini" /\ ~GeminiFinalOk(translateToGeminiMessages(msgs))
          THEN {}
          ELSE {[kind |-> "resolved", content |-> c] : c \in Replies})
    \cup (IF provider = Other
          THEN {[kind |-> "resolved", content |-> Null]}
          ELSE {})

\* a catch block that rethrows (mutant)
CatchBlockRethrows == [pc |-> "unhandled", result |-> NoResultYet]

\* part_002 249-258: what the catch block makes of an exception in the turn
CatchBlock == [pc |-> "returned", result |-> ErrorResult]

\* ------------------------------------------------ main (part_005, 163-225)
\* NextContext that clears the context after an answer too (mutant)
NextContextClearsAnswer(res, context) ==
    IF res.type = "weather" THEN res.summary ELSE Null

\* NextContext that keeps the context after an `info` turn (mutant)
NextContextKeepsOnInfo(res, context) ==
    IF res.type = "weather" THEN res.summary
    ELSE IF Truthy(res.text)
         THEN IF res.type \in {"question", "error"} THEN Null ELSE context
         ELSE Null

\* lines 189-207: the context main holds after a turn
NextContext(res, context) ==
    IF res.type = "weather" THEN res.summary
    ELSE IF Truthy(res.text)
         THEN IF res.type \in {"question", "info", "error"} THEN Null ELSE context
         ELSE Null

\* lines 179-186 and part_002 150-176: the top of the loop, up to the first await
LoopTop(line) ==
    /\ userInput' = line
    /\ isFirstTurn' = FALSE
    /\ inputForAI' = (IF isFirstTurn /\ line = <<>> THEN Hello ELSE line)
    /\ contextArg' = currentContext
    /\ aiResponseText' = Null
    /\ cityToFetch' = Null
    /\ geoResult' = NullResult
    /\ weatherResult' = NullResult
    /\ \E supportedModels \in SupportedModelsOf(aiProvider) :
          IF supportedModels = Threw
          THEN /\ modelToUse' = ""
               /\ calls' = <<>>
               /\ result' = CatchBlock.result
               /\ pc' = CatchBlock.pc
          ELSE /\ modelToUse' = ModelToUse(supportedModels)
               /\ calls' = <<"createChatCompletion">>
               /\ result' = NoResultYet
               /\ pc' = "awaitCompletion"
    /\ UNCHANGED <<aiProvider, currentContext, startupVars, laterVars, historyVars, geminiVars>>

\* the first pass through the loop
FirstTurn ==
    /\ pc = "loopTop"
    /\ LoopTop(userInput)

\* part_002 171-248: the completion settles
CompletionReturns ==
    /\ pc = "awaitCompletion"
    /\ \E outcome \in CompletionOutcomes(aiProvider, TurnMessages(inputForAI, contextArg)) :
          IF outcome.kind = "rejected" \/ outcome.content = Null
          THEN /\ result' = CatchBlock.result
               /\ pc' = CatchBlock.pc
               /\ UNCHANGED <<aiResponseText, cityToFetch, calls>>
          ELSE LET text == Trim(outcome.content)
                   city == CityToFetch(text, extractCityNameSimple(inputForAI), contextArg)
               IN  /\ aiResponseText' = text
                   /\ cityToFetch' = city
                   /\ IF Truthy(city)
                      THEN /\ calls' = Append(calls, "getCoordinatesForCity")
                           /\ pc' = "awaitGeocode"
                           /\ UNCHANGED result
                      ELSE /\ result' = ClassifyReply(text, contextArg)
                           /\ pc' = "returned"
                           /\ UNCHANGED calls
    /\ UNCHANGED <<inputForAI, contextArg, modelToUse, geoResult, weatherResult>>
    /\ UNCHANGED <<mainVars, startupVars, laterVars, historyVars, geminiVars>>

\* a check that lets an absent geocode result through (mutant)
GeocodeMissingNever(geo) == FALSE

\* line 208: !geoResult
GeocodeMissing(geo) == geo = NullResult

\* part_002 45-82 and 207-218: the geocode lookup settles
GeocodeReturns ==
    /\ pc = "awaitGeocode"
    /\ \E geo \in GeoResults \cup {NullResult} :
          /\ geoResult' = geo
          /\ IF GeocodeMissing(geo)
             THEN /\ result' = [type |-> "info",
                                text |-> NoCoordinatesText(cityToFetch),
                                summary |-> Null]
                  /\ pc' = "returned"
                  /\ UNCHANGED calls
             ELSE /\ calls' = Append(calls, "getWeatherForCoordinates")
                  /\ pc' = "awaitWeather"
                  /\ UNCHANGED result
    /\ UNCHANGED <<inputForAI, contextArg, modelToUse, aiResponseText, cityToFetch,
                   weatherResult>>
    /\ UNCHANGED <<mainVars, startupVars, laterVars, historyVars, geminiVars>>

\* part_002 84-122 and 219-235: the weather lookup settles
WeatherReturns ==
    /\ pc = "awaitWeather"
    /\ \E weather \in WeatherResults \cup {NullResult} :
          /\ weatherResult' = weather
          /\ result' = (IF weather = NullResult
                        THEN [type |-> "info",
                              text |-> NoWeatherText(geoResult),
                              summary |-> Null]
                        ELSE [type |-> "weather",
                              text |-> Null,
                              summary |-> FormattedSummary(geoResult, weather)])
    /\ pc' = "returned"
    /\ UNCHANGED <<inputForAI, contextArg, modelToUse, aiResponseText, cityToFetch,
                   geoResult, calls>>
    /\ UNCHANGED <<mainVars, startupVars, laterVars, historyVars, geminiVars>>

\* part_005 189-210: main takes the TurnResult and prompts
MainUpdate ==
    /\ pc = "returned"
    /\ currentContext' = NextContext(result, currentContext)
    /\ liveSummary' = (IF result.type = "weather" THEN result.summary
                       ELSE IF result.type = "answer" THEN liveSummary
                       ELSE Null)
    /\ pc' = "prompt"
    /\ UNCHANGED <<aiProvider, userInput, isFirstTurn, turnVars, startupVars, laterVars, geminiVars>>

\* part_005 210-220: a line arrives at the prompt
Prompt ==
    /\ pc = "prompt"
    /\ \E line \in Lines :
          IF ToLowerCase(line) = <<"/","q","u","i","t">>
          THEN /\ userInput' = line
               /\ pc' = "exited"
               /\ UNCHANGED <<aiProvider, currentContext, isFirstTurn, turnVars,
                              startupVars, laterVars, historyVars, geminiVars>>
          ELSE IF Trim(line) = <<>>
               THEN LoopTop(<<>>)
               ELSE LoopTop(line)

Init ==
    /\ pc = "loopTop"
    /\ env = AllEnv
    /\ providerArg = NoFlag
    /\ aiProvider \in Providers \cup {Other}
    /\ currentContext = Null
    /\ userInput = <<>>
    /\ isFirstTurn = TRUE
    /\ inputForAI = <<>>
    /\ contextArg = Null
    /\ modelToUse = ""
    /\ aiResponseText = Null
    /\ cityToFetch = Null
    /\ geoResult = NullResult
    /\ weatherResult = NullResult
    /\ result = NoResultYet
    /\ calls = <<>>
    /\ liveSummary = Null
    /\ messages = <<>>
    /\ history = <<>>
    /\ LaterIdle

Next ==
    \/ FirstTurn
    \/ CompletionReturns
    \/ GeocodeReturns
    \/ WeatherReturns
    \/ MainUpdate
    \/ Prompt

Spec == Init /\ [][Next]_vars

\* ------------------------------- startup (part_005 129-171, module loading)
\* The values given after --provider= on the command line.
ProviderArgs ==
    { NoFlag, <<>>,
      <<"o","p","e","n","a","i">>, <<"O","p","e","n","A","I">>,
      <<"d","e","e","p","s","e","e","k">>, <<"D","e","e","p","S","e","e","k">>,
      <<"g","e","m","i","n","i">>, <<"G","e","m","i","n","i">>,
      <<"G","E","M","I","N","I">>,
      <<"c","l","a","u","d","e">>, <<"g","e","m","i","n","i","=","x">>,
      <<"=","g","e","m","i","n","i">>, <<" ","g","e","m","i","n","i">> }

\* arg.split('=')[1] of '--provider=' followed by value
SecondField(value) ==
    IF "=" \in Range(value)
    THEN SubSeq(value, 1, (CHOOSE k \in 1..Len(value) :
                              value[k] = "=" /\ \A m \in 1..(k - 1) : value[m] # "=") - 1)
    ELSE value

\* lines 140-146
ProviderNameOf(arg) ==
    IF arg = NoFlag THEN <<"o","p","e","n","a","i">>
    ELSE ToLowerCase(SecondField(arg))

\* a selector that rejects the names it does not know (mutant)
ProviderClassOfStrict(providerName) ==
    IF providerName = <<"d","e","e","p","s","e","e","k">> THEN "Deepseek"
    ELSE IF providerName = <<"g","e","m","i","n","i">> THEN "Gemini"
    ELSE IF providerName = <<"o","p","e","n","a","i">> THEN "OpenAI"
    ELSE "Unknown"

\* lines 150-159: the class getSelectedProvider constructs
ProviderClassOf(providerName) ==
    IF providerName = <<"d","e","e","p","s","e","e","k">> THEN "Deepseek"
    ELSE IF providerName = <<"g","e","m","i","n","i">> THEN "Gemini"
    ELSE IF providerName = <<"o","p","e","n","a","i">> THEN "OpenAI"
    ELSE "OpenAI"

\* the constructors: openai-provider.ts 10-16, part_000 44-49, part_001 70-80
ConstructorThrows(class, environment) ==
    \/ class = "OpenAI" /\ "OPENAI_API_KEY" \notin environment
    \/ class = "Gemini" /\ "GEMINI_API_KEY" \notin environment
    \/ class \notin Providers

\* module bodies of which only the OpenAI one checks its variable (mutant)
ModuleLoadThrowsOpenAIOnly(environment) == "OPENAI_API_KEY" \notin environment

\* the module bodies run by the imports of weather-app.ts:
\* openai-provider.ts 68 and part_000 24-32
ModuleLoadThrows(environment) ==
    \/ "OPENAI_API_KEY" \notin environment
    \/ "DEEPSEEK_API_KEY" \notin environment
    \/ "DEEPSEEK_BASE_URL" \notin environment

LoadModules ==
    /\ pc = "load"
    /\ pc' = (IF ModuleLoadThrows(env) THEN "loadFailed" ELSE "main")
    /\ UNCHANGED <<startupVars, laterVars, mainVars, turnVars, historyVars, geminiVars>>

\* part_005 163-171 and 228-231: main selects the provider
SelectProvider ==
    /\ pc = "main"
    /\ LET class == ProviderClassOf(ProviderNameOf(providerArg))
       IN  IF ConstructorThrows(class, env)
           THEN pc' = "mainFailed" /\ UNCHANGED aiProvider
           ELSE pc' = "loopTop" /\ aiProvider' = class
    /\ UNCHANGED <<currentContext, userInput, isFirstTurn>>
    /\ UNCHANGED <<startupVars, laterVars, turnVars, historyVars, geminiVars>>

InitStartup ==
    /\ pc = "load"
    /\ env \in SUBSET AllEnv
    /\ providerArg \in ProviderArgs
    /\ aiProvider = "none"
    /\ currentContext = Null
    /\ userInput = <<>>
    /\ isFirstTurn = TRUE
    /\ inputForAI = <<>>
    /\ contextArg = Null
    /\ modelToUse = ""
    /\ aiResponseText = Null
    /\ cityToFetch = Null
    /\ geoResult = NullResult
    /\ weatherResult = NullResult
    /\ result = NoResultYet
    /\ calls = <<>>
    /\ liveSummary = Null
    /\ messages = <<>>
    /\ history = <<>>
    /\ LaterIdle

NextStartup == LoadModules \/ SelectProvider

SpecStartup == InitStartup /\ [][NextStartup]_vars

\* ------------------------------------- the translation on its own (part_001)
Roles == {"system", "user", "assistant"}
Texts == {<<>>, <<"A">>, <<"B">>, <<"C">>}
ChatMessages == [role : Roles, content : Texts]

Translate ==
    /\ pc = "translate"
    /\ history' = translateToGeminiMessages(messages)
    /\ pc' = "translated"
    /\ UNCHANGED <<messages, startupVars, laterVars, mainVars, turnVars, historyVars>>

InitTranslate ==
    /\ pc = "translate"
    /\ messages \in SeqsUpTo(ChatMessages, MaxMsgs)
    /\ history = <<>>
    /\ env = AllEnv
    /\ providerArg = NoFlag
    /\ aiProvider = "Gemini"
    /\ currentContext = Null
    /\ userInput = <<>>
    /\ isFirstTurn = TRUE
    /\ inputForAI = <<>>
    /\ contextArg = Null
    /\ modelToUse = ""
    /\ aiResponseText = Null
    /\ cityToFetch = Null
    /\ geoResult = NullResult
    /\ weatherResult = NullResult
    /\ result = NoResultYet
    /\ calls = <<>>
    /\ liveSummary = Null
    /\ LaterIdle

NextTranslate == Translate

SpecTranslate == InitTranslate /\ [][NextTranslate]_vars

\* ------- the adapters' completion calls (openai-provider.ts, part_000, part_001)
MaxCallMsgs == 2
MaxChunks == 2

CallTexts == {<<>>, <<"A">>}
CallMessages == [role : Roles, content : CallTexts]

\* the backend call rejected
Rejected == <<"<rejected>">>

\* choices[0]?.message?.content of a completion reply; Null stands for a reply
\* whose content is null or whose choice or message is absent
BackendContents == {Null, <<>>, <<"A">>}

\* the text of one chunk of a backend stream; Null stands for a chunk without
\* text, which `?? ''` and `|| ''` turn into the empty text
Deltas == {Null, <<"A">>, <<"B">>}
Streams == SeqsUpTo(Deltas, MaxChunks)

NoResponse == [kind |-> "threw", response |-> NullResult]

\* openai-provider.ts 28-35
OpenAICompletion(content) ==
    [kind |-> "returned",
     response |-> [content |-> IF Truthy(content) THEN content ELSE <<>>,
                   usage |-> TRUE]]

\* a Deepseek completion that lets a null content through (mutant)
DeepseekCompletionLenient(content) ==
    [kind |-> "returned",
     response |-> [content |-> IF content = Null THEN <<>> ELSE content,
                   usage |-> TRUE]]

\* part_000 73-92
DeepseekCompletion(content) ==
    IF content = Null
    THEN NoResponse
    ELSE [kind |-> "returned", response |-> [content |-> content, usage |-> TRUE]]

\* part_001 147-163
GeminiCompletion(content) ==
    [kind |-> "returned",
     response |-> [content |-> IF content = Null THEN <<>> ELSE content,
                   usage |-> TRUE]]

\* what createChatCompletion makes of the backend's reply
CompletionOf(provider, backendReply) ==
    IF backendReply = Rejected THEN NoResponse
    ELSE CASE provider = "OpenAI" -> OpenAICompletion(backendReply)
           [] provider = "Deepseek" -> DeepseekCompletion(backendReply)
           [] provider = "Gemini" -> GeminiCompletion(backendReply)

\* part_001 109: history.length > 1 ? history.slice(0, -1) : []
ChatHistoryOf(translated) ==
    IF Len(translated) > 1 THEN SubSeq(translated, 1, Len(translated) - 1) ELSE <<>>

\* part_001 135-145 and 205-217: startChat and sendMessage(Stream)
GeminiRequest(translated) ==
    [history |-> ChatHistoryOf(translated),
     message |-> translated[Len(translated)].text]

\* openai-provider.ts 23 and 42, part_000 66: the config goes out as it is
PlainRequest(msgs) == [history |-> msgs, message |-> Null]

\* the method is entered and runs up to its first await
Call ==
    /\ pc = "call"
    /\ IF adapter = "Gemini"
       THEN LET translated == translateToGeminiMessages(messages)
            IN  /\ history' = translated
                /\ IF GeminiFinalOk(translated)
                   THEN /\ sent' = Append(sent, GeminiRequest(translated))
                        /\ pc' = (IF streaming THEN "awaitStream" ELSE "awaitReply")
                        /\ UNCHANGED status
                   ELSE /\ status' = "threw"
                        /\ pc' = "done"
                        /\ UNCHANGED sent
       ELSE /\ sent' = Append(sent, PlainRequest(messages))
            /\ pc' = (IF adapter = "OpenAI" /\ streaming
                      THEN "awaitStream" ELSE "awaitReply")
            /\ UNCHANGED <<history, status>>
    /\ UNCHANGED <<messages, adapter, streaming, reply, chunks, accumulatedContent,
                   yielded, response>>
    /\ UNCHANGED notAdapterVars

\* a generator that yields the response twice (mutant)
DeepseekYieldTwice(completion) == <<completion.response, completion.response>>

\* part_000 108-109: the only yield of the Deepseek generator
DeepseekYield(completion) == <<completion.response>>

\* the backend's completion reply settles
ReplyArrives ==
    /\ pc = "awaitReply"
    /\ \E backendReply \in BackendContents \cup {Rejected} :
          LET completion == CompletionOf(adapter, backendReply)
          IN  /\ reply' = backendReply
              /\ IF completion.kind = "threw"
                 THEN /\ status' = "threw"
                      /\ UNCHANGED <<response, yielded>>
                 ELSE /\ status' = "returned"
                      /\ IF streaming
                         THEN /\ yielded' = DeepseekYield(completion)
                              /\ UNCHANGED response
                         ELSE /\ response' = completion.response
                              /\ UNCHANGED yielded
    /\ pc' = "done"
    /\ UNCHANGED <<adapter, streaming, sent, chunks, accumulatedContent>>
    /\ UNCHANGED <<geminiVars, notAdapterVars>>

\* the backend opens the stream, or rejects
StreamOpens ==
    /\ pc \in {"awaitStream", "awaitStream2"}
    /\ \E stream \in Streams \cup {Rejected} :
          IF stream = Rejected
          THEN /\ status' = "threw"
               /\ pc' = "done"
               /\ UNCHANGED chunks
          ELSE /\ chunks' = stream
               /\ pc' = (IF pc = "awaitStream" THEN "stream" ELSE "stream2")
               /\ UNCHANGED status
    /\ UNCHANGED <<adapter, streaming, sent, reply, accumulatedContent, yielded,
                   response>>
    /\ UNCHANGED <<geminiVars, notAdapterVars>>

\* a chunk without usage counts
Chunk(content) == [content |-> content, usage |-> FALSE]

\* part_001 227-228: what the first loop yields for a delta
FirstLoopYield(deltaContent, accumulated) == Chunk(deltaContent)

\* part_001 282-283: what the second loop yields for a delta
SecondLoopYield(deltaContent, accumulated) == Chunk(accumulated)

\* one pass of the for-await loop: openai-provider.ts 47-55,
\* part_001 219-236 and 275-290
StreamChunk ==
    /\ pc \in {"stream", "stream2"}
    /\ chunks # <<>>
    /\ LET deltaContent == IF Head(chunks) = Null THEN <<>> ELSE Head(chunks)
           accumulated == accumulatedContent \o deltaContent
       IN  IF adapter = "OpenAI"
           THEN /\ yielded' = Append(yielded, Chunk(deltaContent))
                /\ UNCHANGED accumulatedContent
           ELSE IF Truthy(deltaContent)
                THEN /\ accumulatedContent' = accumulated
                     /\ yielded' = Append(yielded,
                            IF pc = "stream"
                            THEN FirstLoopYield(deltaContent, accumulated)
                            ELSE SecondLoopYield(deltaContent, accumulated))
                ELSE UNCHANGED <<accumulatedContent, yielded>>
    /\ chunks' = Tail(chunks)
    /\ UNCHANGED <<pc, adapter, streaming, sent, reply, status, response>>
    /\ UNCHANGED <<geminiVars, notAdapterVars>>

\* the stream, or the aggregated response awaited after it, fails
StreamBreaks ==
    /\ pc \in {"stream", "stream2"}
    /\ status' = "threw"
    /\ pc' = "done"
    /\ UNCHANGED <<adapter, streaming, sent, reply, chunks, accumulatedContent,
                   yielded, response>>
    /\ UNCHANGED <<geminiVars, notAdapterVars>>

\* the stream is exhausted: openai-provider.ts 56, part_001 251-274 and 300-316
StreamEnds ==
    /\ pc \in {"stream", "stream2"}
    /\ chunks = <<>>
    /\ IF adapter = "OpenAI"
       THEN /\ status' = "returned"
            /\ pc' = "done"
            /\ UNCHANGED <<sent, accumulatedContent, yielded>>
       ELSE IF pc = "stream"
            THEN /\ accumulatedContent' = <<>>
                 /\ sent' = Append(sent, GeminiRequest(history))
                 /\ pc' = "awaitStream2"
                 /\ UNCHANGED <<yielded, status>>
            ELSE /\ yielded' = Append(yielded,
                        [content |-> accumulatedContent, usage |-> TRUE])
                 /\ status' = "returned"
                 /\ pc' = "done"
                 /\ UNCHANGED <<sent, accumulatedContent>>
    /\ UNCHANGED <<adapter, streaming, reply, chunks, response>>
    /\ UNCHANGED <<geminiVars, notAdapterVars>>

WeatherIdle ==
    /\ env = AllEnv
    /\ providerArg = NoFlag
    /\ aiProvider = "none"
    /\ currentContext = Null
    /\ userInput = <<>>
    /\ isFirstTurn = TRUE
    /\ inputForAI = <<>>
    /\ contextArg = Null
    /\ modelToUse = ""
    /\ aiResponseText = Null
    /\ cityToFetch = Null
    /\ geoResult = NullResult
    /\ weatherResult = NullResult
    /\ result = NoResultYet
    /\ calls = <<>>
    /\ liveSummary = Null

InitAdapter ==
    /\ pc = "call"
    /\ adapter \in Providers
    /\ streaming \in BOOLEAN
    /\ messages \in SeqsUpTo(CallMessages, MaxCallMsgs)
    /\ history = <<>>
    /\ sent = <<>>
    /\ reply = NoReply
    /\ chunks = <<>>
    /\ accumulatedContent = <<>>
    /\ yielded = <<>>
    /\ status = "pending"
    /\ response = NullResult
    /\ WeatherIdle /\ CodeIdle /\ StructuredIdle /\ StoryIdle /\ ProcessIdle

NextAdapter ==
    \/ Call
    \/ ReplyArrives
    \/ StreamOpens
    \/ StreamChunk
    \/ StreamBreaks
    \/ StreamEnds

SpecAdapter == InitAdapter /\ [][NextAdapter]_vars

\* ------------------------------ interpretWeatherCode on its own (part_002)
\* the codes range over -BelowZero..MaxCode
BelowZero == 3
MaxCode == 100

\* the weathercode of a reading, an integer
Codes == (0 - BelowZero)..MaxCode

Interpret ==
    /\ pc = "interpret"
    /\ description' = interpretWeatherCode(code)
    /\ pc' = "interpreted"
    /\ UNCHANGED <<code, weatherVars, geminiVars, adapterVars, structuredVars,
                   storyVars, processVars>>

InitWeatherCode ==
    /\ pc = "interpret"
    /\ code \in Codes
    /\ description = <<>>
    /\ messages = <<>>
    /\ history = <<>>
    /\ WeatherIdle /\ AdapterIdle /\ StructuredIdle /\ StoryIdle /\ ProcessIdle

NextWeatherCode == Interpret

SpecWeatherCode == InitWeatherCode /\ [][NextWeatherCode]_vars

\* ---------- the structured-output apps (part_003, flashcard-forge.ts)
\* part_003 50
MAX_RETRIES == 3

\* A parsed JSON value, by the types of the members the apps look at.
NoMembers ==
    [title |-> "missing", ingredients |-> "missing", steps |-> "missing",
     calories |-> "missing", flashcards |-> "missing", metadata |-> "missing"]
JsonNull == [type |-> "null", members |-> NoMembers]
JsonNumber == [type |-> "number", members |-> NoMembers]
RecipeObjects ==
    {[type |-> "object",
      members |-> [NoMembers EXCEPT !.title = t, !.ingredients = i,
                                    !.steps = s, !.calories = c]] :
        t \in {"string", "missing"}, i \in {"strings", "mixed"},
        s \in {"strings", "missing"}, c \in {"number", "string"}}
CardObjects ==
    {[type |-> "object",
      members |-> [NoMembers EXCEPT !.flashcards = f, !.metadata = m]] :
        f \in {"array", "string", "missing"}, m \in {"object", "missing"}}
JsonValues == {JsonNull, JsonNumber} \cup RecipeObjects \cup CardObjects

\* What a backend call gives: it rejects, it resolves without a choice, or it
\* resolves with a content that is null, the empty text, a text JSON.parse
\* refuses, or the text of a JSON value.
NoContent(kind) == [kind |-> kind, parses |-> FALSE, data |-> JsonNull]
BackendReplies ==
    {NoContent(k) : k \in {"rejected", "noChoice", "null", "empty", "text"}}
    \cup {[kind |-> "text", parses |-> TRUE, data |-> d] : d \in JsonValues}

\* part_003 73-88
validateRecipeJson(data) ==
    /\ data.type = "object"
    /\ data.members.title = "string"
    /\ data.members.ingredients = "strings"
    /\ data.members.steps = "strings"
    /\ data.members.calories = "number"

\* part_003 115-158: the attempt gives a recipe
AttemptSucceeds(backendReply) ==
    /\ backendReply.kind = "text"
    /\ backendReply.parses
    /\ validateRecipeJson(backendReply.data)

\* flashcard-forge.ts 114-143: generateFlashcards returns
CardsParsed(backendReply) ==
    /\ backendReply.kind = "text"
    /\ backendReply.parses
    /\ backendReply.data.type \in {"object", "number"}
    /\ backendReply.data.members.flashcards # "missing"
    /\ backendReply.data.members.metadata # "missing"

\* a loop that gives up two attempts for one failure (mutant)
RetriesLeftLess(n) == n - 2

\* part_003 126, 145, 165, 176: retries--
RetriesLeft(n) == n - 1

\* a delay after every failed attempt, the last one included (mutant)
DelayAfterEveryFailure(n) == TRUE

\* part_003 127, 146, 166, 177: if (retries > 0) await the delay
DelayBeforeRetry(n) == n > 0

\* part_003 190-201 and 92-117: main asks for the dish, getRecipeJson makes
\* its first call
AskDish ==
    /\ pc = "start"
    /\ app = "recipe"
    /\ \E dishName \in {<<>>, <<" ">>, <<"P">>} :
          IF Trim(dishName) = <<>>
          THEN /\ printed' = "No dish name provided. Exiting."
               /\ pc' = "mainDone"
               /\ UNCHANGED <<retries, apiCalls>>
          ELSE /\ retries' = MAX_RETRIES
               /\ apiCalls' = apiCalls + 1
               /\ pc' = "awaitApi"
               /\ UNCHANGED printed
    /\ UNCHANGED <<app, replies, recipeJson>>
    /\ UNCHANGED <<weatherVars, geminiVars, adapterVars, codeVars, storyVars, processVars>>

\* flashcard-forge.ts 166-195 and 72-114: main asks its questions,
\* generateFlashcards makes its call
AskCards ==
    /\ pc = "start"
    /\ app = "flashcards"
    /\ apiCalls' = apiCalls + 1
    /\ pc' = "awaitApi"
    /\ UNCHANGED <<app, retries, replies, recipeJson, printed>>
    /\ UNCHANGED <<weatherVars, geminiVars, adapterVars, codeVars, storyVars, processVars>>

\* part_003 119-178 and flashcard-forge.ts 115-155: the call settles
ApiReturns ==
    /\ pc = "awaitApi"
    /\ \E backendReply \in BackendReplies :
          /\ app = "flashcards" => backendReply.kind \in {"rejected", "empty", "text"}
          /\ replies' = Append(replies, backendReply)
          /\ IF app = "recipe"
             THEN IF AttemptSucceeds(backendReply)
                  THEN /\ recipeJson' = backendReply.data
                       /\ pc' = "returned"
                       /\ UNCHANGED retries
                  ELSE /\ retries' = RetriesLeft(retries)
                       /\ IF DelayBeforeRetry(retries')
                          THEN pc' = "delay" /\ UNCHANGED recipeJson
                          ELSE pc' = "returned" /\ recipeJson' = NullResult
             ELSE /\ recipeJson' = (IF CardsParsed(backendReply)
                                    THEN backendReply.data ELSE ThrewError)
                  /\ pc' = "returned"
                  /\ UNCHANGED retries
    /\ UNCHANGED <<app, apiCalls, printed>>
    /\ UNCHANGED <<weatherVars, geminiVars, adapterVars, codeVars, storyVars, processVars>>

\* part_003 128, 147, 167, 177 and 93-117: the second of delay is over, the
\* loop tests retries and makes its next call, or ends and null is returned
DelayElapses ==
    /\ pc = "delay"
    /\ IF retries > 0
       THEN /\ apiCalls' = apiCalls + 1
            /\ pc' = "awaitApi"
            /\ UNCHANGED recipeJson
       ELSE /\ recipeJson' = NullResult
            /\ pc' = "returned"
            /\ UNCHANGED apiCalls
    /\ UNCHANGED <<app, retries, replies, printed>>
    /\ UNCHANGED <<weatherVars, geminiVars, adapterVars, codeVars, storyVars, processVars>>

\* part_003 203-216 and flashcard-forge.ts 197-220: main prints the outcome
MainPrints ==
    /\ pc = "returned"
    /\ printed' =
          (IF app = "recipe"
           THEN IF recipeJson = NullResult
                THEN "Failed to generate a valid recipe JSON after multiple attempts."
                ELSE "--- Generated Recipe JSON ---"
           ELSE IF recipeJson = ThrewError \/ recipeJson.members.flashcards # "array"
                THEN "Error:"
                ELSE "--- Performance ---")
    /\ pc' = "mainDone"
    /\ UNCHANGED <<app, retries, apiCalls, replies, recipeJson>>
    /\ UNCHANGED <<weatherVars, geminiVars, adapterVars, codeVars, storyVars, processVars>>

InitStructured ==
    /\ pc = "start"
    /\ app \in {"recipe", "flashcards"}
    /\ retries = 0
    /\ apiCalls = 0
    /\ replies = <<>>
    /\ recipeJson = NotReturned
    /\ printed = "nothing"
    /\ messages = <<>>
    /\ history = <<>>
    /\ WeatherIdle /\ AdapterIdle /\ CodeIdle /\ StoryIdle /\ ProcessIdle

NextStructured ==
    \/ AskDish
    \/ AskCards
    \/ ApiReturns
    \/ DelayElapses
    \/ MainPrints

SpecStructured == InitStructured /\ [][NextStructured]_vars

\* ------------------- the storytelling app (mini-apps/weather-service.ts 208-326)
MaxStoryMsgs == 4

RECURSIVE SplitSpace(_)
\* String.prototype.split(' ')
SplitSpace(s) ==
    IF " " \notin Range(s) THEN <<s>>
    ELSE LET i == CHOOSE k \in 1..Len(s) :
                      s[k] = " " /\ \A m \in 1..(k - 1) : s[m] # " "
         IN  <<SubSeq(s, 1, i - 1)>> \o SplitSpace(SubSeq(s, i + 1, Len(s)))

DigitChars == <<"0","1","2","3","4","5","6","7","8","9">>
IsDigit(c) == c \in Range(DigitChars)
DigitVal(c) == (CHOOSE i \in 1..10 : DigitChars[i] = c) - 1

RECURSIVE DigitsEnd(_, _)
\* the index of the last digit of the run of digits that starts at i, or i - 1
DigitsEnd(s, i) ==
    IF i <= Len(s) /\ IsDigit(s[i]) THEN DigitsEnd(s, i + 1) ELSE i - 1

RECURSIVE DigitsValue(_, _, _)
DigitsValue(s, i, j) ==
    IF j < i THEN 0 ELSE DigitsValue(s, i, j - 1) * 10 + DigitVal(s[j])

NaN == [nan |-> TRUE, tenths |-> 0]

\* parseFloat of a text without spaces, in tenths: an optional sign, digits,
\* an optional point and digits, anything after that ignored.  The texts
\* given to it here have at most one digit after the point.
ParseFloat(s) ==
    LET signed == s # <<>> /\ s[1] \in {"-", "+"}
        first == IF signed THEN 2 ELSE 1
        intEnd == DigitsEnd(s, first)
        hasInt == intEnd >= first
        hasFrac == /\ intEnd + 2 <= Len(s)
                   /\ s[intEnd + 1] = "."
                   /\ IsDigit(s[intEnd + 2])
        magnitude == DigitsValue(s, first, intEnd) * 10
                     + (IF hasFrac THEN DigitVal(s[intEnd + 2]) ELSE 0)
    IN  IF ~hasInt /\ ~hasFrac THEN NaN
        ELSE [nan |-> FALSE,
              tenths |-> IF signed /\ s[1] = "-" THEN 0 - magnitude ELSE magnitude]

\* a range check that stops at 3.0 (mutant)
TemperatureAfterWide(parts, current) ==
    IF Len(parts) = 2
    THEN LET tempValue == ParseFloat(parts[2])
         IN  IF ~tempValue.nan /\ tempValue.tenths >= 0 /\ tempValue.tenths <= 30
             THEN tempValue.tenths
             ELSE current
    ELSE current

\* weather-service.ts 237-250: the temperature after a /temp command
TemperatureAfter(parts, current) ==
    IF Len(parts) = 2
    THEN LET tempValue == ParseFloat(parts[2])
         IN  IF ~tempValue.nan /\ tempValue.tenths >= 0 /\ tempValue.tenths <= 20
             THEN tempValue.tenths
             ELSE current
    ELSE current

QUIT == <<"/","q","u","i","t">>
TEMP == <<"/","t","e","m","p">>

\* the lines typed at the storytelling prompt
StoryLines ==
    { QUIT, <<"/","Q","u","i","t">>, <<" ">> \o QUIT \o <<" ">>,
      <<>>, <<" ">>, <<"H","i">>, <<" ","H","i">>,
      TEMP, TEMP \o <<" ","1",".","5">>, TEMP \o <<" ","2">>,
      TEMP \o <<" ","2",".","1">>, TEMP \o <<" ","-","1">>, TEMP \o <<" ","x">>,
      TEMP \o <<" ","0">>, TEMP \o <<" "," ","1">>, TEMP \o <<"o"," ","1">>,
      TEMP \o <<" ","1","x">>, TEMP \o <<" ",".","5">> }

storySystem == <<"You are a collaborative storyteller. ...">>

\* chunk.choices[0]?.delta?.content of one chunk of the stream
StoryDeltas == {Null, <<"A">>, <<" ">>}
StoryStreams == SeqsUpTo(StoryDeltas, MaxChunks)

\* what the story actions leave alone
storyFrame == <<startupVars, aiProvider, currentContext, isFirstTurn, turnVars,
                historyVars, history, adapter, streaming, sent, reply,
                accumulatedContent, yielded, status, response,
                codeVars, structuredVars, processVars>>

\* a catch block that ends the loop (mutant)
StoryCatchEnds == "storyEnded"

\* weather-service.ts 291-297 and 260: the error is logged, the loop goes on
StoryCatch == "storyPrompt"

\* weather-service.ts 311-312, 228-261 and 264-276: a line arrives at `You: `
StoryInput ==
    /\ pc = "storyPrompt"
    /\ \E line \in StoryLines :
          LET trimmedInput == Trim(line)
          IN  /\ userInput' = line
              /\ IF ToLowerCase(trimmedInput) = QUIT
                 THEN /\ keepGoing' = FALSE
                      /\ pc' = "storyEnded"
                      /\ UNCHANGED <<messages, currentTemperature, aiSentence>>
                 ELSE IF StartsWith(trimmedInput, TEMP)
                 THEN /\ currentTemperature' =
                            TemperatureAfter(SplitSpace(trimmedInput), currentTemperature)
                      /\ UNCHANGED <<pc, messages, aiSentence, keepGoing>>
                 ELSE IF trimmedInput # <<>>
                 THEN /\ Len(messages) < MaxStoryMsgs
                      /\ messages' = Append(messages,
                                            [role |-> "user", content |-> trimmedInput])
                      /\ aiSentence' = <<>>
                      /\ pc' = "storyAwait"
                      /\ UNCHANGED <<currentTemperature, keepGoing>>
                 ELSE UNCHANGED <<pc, messages, currentTemperature, aiSentence, keepGoing>>
    /\ UNCHANGED <<chunks, storyFrame>>

\* weather-service.ts 269-276: the backend opens the stream, or rejects
StoryStreamOpens ==
    /\ pc = "storyAwait"
    /\ \E stream \in StoryStreams \cup {Rejected} :
          IF stream = Rejected
          THEN pc' = StoryCatch /\ UNCHANGED chunks
          ELSE pc' = "storyStream" /\ chunks' = stream
    /\ UNCHANGED <<messages, userInput, storyVars, storyFrame>>

\* weather-service.ts 278-282: one pass of the for-await loop
StoryChunk ==
    /\ pc = "storyStream"
    /\ chunks # <<>>
    /\ aiSentence' = aiSentence \o (IF Truthy(Head(chunks)) THEN Head(chunks) ELSE <<>>)
    /\ chunks' = Tail(chunks)
    /\ UNCHANGED <<pc, messages, userInput, currentTemperature, keepGoing, storyFrame>>

\* weather-service.ts 278 and 291-297: the stream fails while it is read
StoryStreamBreaks ==
    /\ pc = "storyStream"
    /\ pc' = StoryCatch
    /\ chunks' = <<>>
    /\ UNCHANGED <<messages, userInput, storyVars, storyFrame>>

\* an end of stream that records the reply without looking at it (mutant)
StoryStreamEndsAlwaysAppends ==
    /\ pc = "storyStream"
    /\ chunks = <<>>
    /\ messages' = Append(messages,
                          [role |-> "assistant", content |-> Trim(aiSentence)])
    /\ pc' = "storyPrompt"
    /\ UNCHANGED <<chunks, userInput, storyVars, storyFrame>>

\* weather-service.ts 283-290: the stream is exhausted
StoryStreamEnds ==
    /\ pc = "storyStream"
    /\ chunks = <<>>
    /\ messages' = (IF Trim(aiSentence) # <<>>
                    THEN Append(messages,
                                [role |-> "assistant", content |-> Trim(aiSentence)])
                    ELSE messages)
    /\ pc' = "storyPrompt"
    /\ UNCHANGED <<chunks, userInput, storyVars, storyFrame>>

InitStory ==
    /\ pc = "storyPrompt"
    /\ messages = <<[role |-> "system", content |-> storySystem]>>
    /\ history = <<>>
    /\ currentTemperature = 7
    /\ aiSentence = <<>>
    /\ keepGoing = TRUE
    /\ WeatherIdle /\ AdapterIdle /\ CodeIdle /\ StructuredIdle /\ ProcessIdle

NextStory ==
    \/ StoryInput
    \/ StoryStreamOpens
    \/ StoryChunk
    \/ StoryStreamBreaks
    \/ StoryStreamEnds

SpecStory == InitStory /\ [][NextStory]_vars

\* ------------------------------------------- the two interactive loops
\* The weather app runs on the Gemini adapter or on any other implementation
\* of the interface; what the loop can see of the OpenAI and Deepseek adapters
\* (a model id, a resolved or rejected completion) the latter shows too.
InitLoops ==
    \/ Init /\ aiProvider \in {"Gemini", Other}
    \/ InitStory

NextLoops == Next \/ NextStory

SpecLoops == InitLoops /\ [][NextLoops]_vars

\* ------- the process of a multi-provider app (part_005, flashcard-forge.ts,
\* cli-utils.ts)
Programs == {"weather-app", "flashcard-forge"}

processFrame == <<env, providerArg, currentContext, userInput, isFirstTurn,
                  turnVars, historyVars, geminiVars, adapterVars, codeVars,
                  structuredVars, storyVars>>

\* The imports are evaluated in order: openai-provider.ts 68 and
\* part_000 24-32 run before cli-utils.ts 6-9 creates the readline interface.
ProcessLoads ==
    /\ pc = "load"
    /\ IF ModuleLoadThrows(env)
       THEN pc' = "loadFailed" /\ UNCHANGED rlOpen
       ELSE pc' = "main" /\ rlOpen' = TRUE
    /\ UNCHANGED <<aiProvider, program, stderr, processFrame>>

\* an exception thrown while the modules load is uncaught: the runtime
\* reports it and ends the process
UncaughtException ==
    /\ pc = "loadFailed"
    /\ stderr' = Append(stderr, "Uncaught Error")
    /\ pc' = "processExited"
    /\ UNCHANGED <<aiProvider, program, rlOpen, processFrame>>

\* part_005 163-171 and flashcard-forge.ts 159-163: main selects the provider
ProcessSelects ==
    /\ pc = "main"
    /\ LET class == ProviderClassOf(ProviderNameOf(providerArg))
       IN  IF ConstructorThrows(class, env)
           THEN pc' = "mainRejected" /\ UNCHANGED aiProvider
           ELSE pc' = "loopTop" /\ aiProvider' = class
    /\ UNCHANGED <<program, stderr, rlOpen, processFrame>>

\* part_005 228-231: the rejection of main() is caught and logged; nothing
\* closes the readline interface, so the process stays, waiting on stdin
MainCatch ==
    /\ pc = "mainRejected"
    /\ program = "weather-app"
    /\ stderr' = Append(stderr, "Unhandled error in main:")
    /\ pc' = "idle"
    /\ UNCHANGED <<aiProvider, program, rlOpen, processFrame>>

\* flashcard-forge.ts 226: main() has no catch; the runtime reports the
\* unhandled rejection and ends the process
UnhandledRejection ==
    /\ pc = "mainRejected"
    /\ program = "flashcard-forge"
    /\ stderr' = Append(stderr, "Unhandled Rejection")
    /\ pc' = "processExited"
    /\ UNCHANGED <<aiProvider, program, rlOpen, processFrame>>

\* cli-utils.ts 35-45: the user ends the input or interrupts; the interface
\* closes and the process ends
StdinCloses ==
    /\ pc = "idle"
    /\ rlOpen
    /\ rlOpen' = FALSE
    /\ pc' = "processExited"
    /\ UNCHANGED <<aiProvider, program, stderr, processFrame>>

InitProcess ==
    /\ pc = "load"
    /\ env \in SUBSET AllEnv
    /\ providerArg \in ProviderArgs
    /\ program \in Programs
    /\ stderr = <<>>
    /\ rlOpen = FALSE
    /\ aiProvider = "none"
    /\ currentContext = Null
    /\ userInput = <<>>
    /\ isFirstTurn = TRUE
    /\ inputForAI = <<>>
    /\ contextArg = Null
    /\ modelToUse = ""
    /\ aiResponseText = Null
    /\ cityToFetch = Null
    /\ geoResult = NullResult
    /\ weatherResult = NullResult
    /\ result = NoResultYet
    /\ calls = <<>>
    /\ liveSummary = Null
    /\ messages = <<>>
    /\ history = <<>>
    /\ AdapterIdle /\ CodeIdle /\ StructuredIdle /\ StoryIdle

\* the steps the runtime takes by itself
RuntimeStep ==
    \/ ProcessLoads
    \/ UncaughtException
    \/ ProcessSelects
    \/ MainCatch
    \/ UnhandledRejection

NextProcess ==
    \/ ProcessLoads
    \/ UncaughtException
    \/ ProcessSelects
    \/ MainCatch
    \/ UnhandledRejection
    \/ StdinCloses

\* The runtime keeps running what is ready to run; nothing makes the user
\* end the input.
SpecProcess == InitProcess /\ [][NextProcess]_vars /\ WF_vars(RuntimeStep)

\* ------------------- extractCityNameSimple on its own (openai-provider.ts)
\* the inputs are up to MaxWords words, separated by blanks
MaxWords == 3

\* a capitalized stop word, a lowercase stop word, three names (two of one
\* length) and a lowercase word
CityWords ==
    { <<"W","h","a","t">>, <<"m","e">>, <<"R","i","o">>, <<"O","s","l","o">>,
      <<"R","o","m","e">>, <<"i","n">> }

RECURSIVE JoinWith(_, _)
JoinWith(words, sep) ==
    IF words = <<>> THEN <<>>
    ELSE IF Len(words) = 1 THEN words[1]
    ELSE words[1] \o sep \o JoinWith(Tail(words), sep)

\* the input string of extractCityNameSimple
CityInputs ==
    { lead \o JoinWith(words, sep) :
        lead \in {<<>>, <<" ">>},
        sep \in {<<" ">>, <<"\t", " ">>},
        words \in SeqsUpTo(CityWords, MaxWords) }

\* openai-provider.ts 163-202: const potentialCity = extractCityNameSimple(input)
ExtractCity ==
    /\ pc = "extract"
    /\ cityToFetch' = extractCityNameSimple(userInput)
    /\ pc' = "extracted"
    /\ UNCHANGED <<startupVars, mainVars, inputForAI, contextArg, modelToUse,
                   aiResponseText, geoResult, weatherResult, result, calls,
                   historyVars, geminiVars, laterVars>>

InitCity ==
    /\ pc = "extract"
    /\ userInput \in CityInputs
    /\ cityToFetch = Null
    /\ env = AllEnv
    /\ providerArg = NoFlag
    /\ aiProvider = "none"
    /\ currentContext = Null
    /\ isFirstTurn = TRUE
    /\ inputForAI = <<>>
    /\ contextArg = Null
    /\ modelToUse = ""
    /\ aiResponseText = Null
    /\ geoResult = NullResult
    /\ weatherResult = NullResult
    /\ result = NoResultYet
    /\ calls = <<>>
    /\ liveSummary = Null
    /\ messages = <<>>
    /\ history = <<>>
    /\ LaterIdle

NextCity == ExtractCity

SpecCity == InitCity /\ [][NextCity]_vars

\* ========================================================== the claims
TurnOver == pc \in {"returned", "prompt"}
Replied == aiResponseText # Null
TurnTypes == {"weather", "question", "answer", "info", "error"}

\* C1 (as stated): a turn whose outcome is `answer` leaves the context the
\* main loop holds exactly as it was before the turn.
C1_AnswerKeepsContext ==
    (pc = "prompt" /\ result.type = "answer") => currentContext = contextArg

\* C1 (amended): a turn whose outcome is `answer` and whose reply text is
\* not empty leaves the context exactly as it was before the turn; after an
\* `answer` with an empty text main holds no context.
C1_NonEmptyAnswerKeepsContext ==
    (pc = "prompt" /\ result.type = "answer")
        => currentContext = (IF result.text = <<>> THEN Null ELSE contextArg)

C1_Witness ==
    /\ pc = "prompt"
    /\ result.type = "answer"
    /\ result.text # <<>>
    /\ contextArg # Null
    /\ currentContext = contextArg

\* C2 (as stated): with a context present, every reply that does not begin
\* with the fetch-trigger phrase gives outcome `answer` and leaves the
\* context unchanged.
C2_NonTriggerIsAnswer ==
    (TurnOver /\ Replied /\ contextArg # Null /\ ~FetchTriggerOf(aiResponseText))
        => /\ result.type = "answer"
           /\ pc = "prompt" => currentContext = contextArg

\* C2 (amended): with a context present, every reply that does not begin
\* with the fetch-trigger phrase and does not contain "Which city" gives
\* outcome `answer`; the context is unchanged after the turn when the
\* trimmed reply is not empty, and absent when it is empty.
C2_NonTriggerNonQuestionIsAnswer ==
    (/\ TurnOver /\ Replied /\ contextArg # Null
     /\ ~FetchTriggerOf(aiResponseText)
     /\ ~IncludesWhichCity(aiResponseText))
        => /\ result.type = "answer"
           /\ pc = "prompt" =>
                 currentContext = (IF aiResponseText = <<>> THEN Null ELSE contextArg)

C2_Witness ==
    /\ pc = "prompt" /\ Replied /\ contextArg # Null
    /\ ~FetchTriggerOf(aiResponseText)
    /\ ~IncludesWhichCity(aiResponseText)
    /\ aiResponseText # <<>>
    /\ extractCityNameSimple(inputForAI) # Null
    /\ result.type = "answer"
    /\ currentContext = contextArg

\* C3: with no context, for every user input (the first turn's "Hello"
\* included), a reply that contains "Which city" and does not begin with the
\* fetch-trigger phrase gives outcome `question`, no geocode or weather
\* lookup is made, and the context stays absent.
C3_WhichCityIsQuestion ==
    (/\ Replied /\ contextArg = Null
     /\ IncludesWhichCity(aiResponseText)
     /\ ~FetchTriggerOf(aiResponseText))
        => /\ calls = <<"createChatCompletion">>
           /\ TurnOver
           /\ result.type = "question"
           /\ currentContext = Null

\* C4: the context is either absent or the summary of the most recent
\* `weather` turn with only `answer` turns since; after a `question`, `info`
\* or `error` turn the context is absent.
C4_ContextLifecycle ==
    /\ currentContext = Null \/ currentContext = liveSummary
    /\ (pc = "prompt" /\ result.type \in {"question", "info", "error"})
          => currentContext = Null
    /\ (pc = "prompt" /\ result.type = "weather")
          => currentContext = result.summary

C4_Witness ==
    /\ pc = "prompt"
    /\ result.type = "answer"
    /\ currentContext # Null
    /\ currentContext = liveSummary

\* the names a reply can carry between the phrase and the ellipsis
NamesIn(text) ==
    {SubSeq(text, 3, k) : k \in 3..(Len(text) - 1)}

IsTriggerWithName(text, name) ==
    /\ name # <<>>
    /\ ELLIPSIS \notin Range(name)
    /\ StartsWith(text, <<TRIGGER, " ">> \o name \o <<ELLIPSIS>>)

C6_HeuristicOnlyWithoutContext ==
    /\ (Replied /\ cityToFetch # Null)
          => \/ FetchTriggerOf(aiResponseText) /\ cityToFetch = MatchCity(aiResponseText)
             \/ /\ ~FetchTriggerOf(aiResponseText)
                /\ contextArg = Null
                /\ cityToFetch = extractCityNameSimple(inputForAI)
    /\ (Replied /\ contextArg # Null /\ ~FetchTriggerOf(aiResponseText))
          => /\ cityToFetch = Null
             /\ calls = <<"createChatCompletion">>

C6_Witness ==
    /\ pc = "prompt" /\ Replied
    /\ contextArg # Null
    /\ ~FetchTriggerOf(aiResponseText)
    /\ extractCityNameSimple(inputForAI) # Null
    /\ calls = <<"createChatCompletion">>

\* the turn ended without a usable reply: the descriptor call threw, the
\* completion was rejected or its content was no string
TurnFailed == TurnOver /\ ~Replied

\* C7: handleConversationTurn never throws: every turn ends with a
\* TurnResult of one of the five types; a turn in which an exception was
\* raised ends with type `error` and the fixed text, after which main holds
\* no context.
C7_TurnNeverThrows ==
    /\ pc \in {"loopTop", "awaitCompletion", "awaitGeocode", "awaitWeather",
               "returned", "prompt", "exited"}
    /\ TurnOver => result.type \in TurnTypes
    /\ TurnFailed => result = ErrorResult
    /\ (TurnOver /\ result.type = "error")
          => result.text = <<"An error occurred while processing your request.">>
    /\ (pc = "prompt" /\ result.type = "error") => currentContext = Null

C7_Witness ==
    /\ pc = "prompt"
    /\ TurnFailed
    /\ contextArg # Null
    /\ result.type = "error"
    /\ currentContext = Null

\* C8: a geocode lookup without a usable result gives `info` and the weather
\* lookup is never dispatched; a weather lookup without a usable result gives
\* `info` too; in both cases main holds no context after the turn.  The
\* weather lookup is dispatched only after a successful geocode, and that
\* only after the completion returned.
C8_FetchFailureIsInfo ==
    /\ (TurnOver /\ cityToFetch # Null /\ geoResult = NullResult)
          => /\ result.type = "info"
             /\ "getWeatherForCoordinates" \notin Range(calls)
             /\ pc = "prompt" => currentContext = Null
    /\ (TurnOver /\ geoResult # NullResult /\ weatherResult = NullResult)
          => /\ result.type = "info"
             /\ pc = "prompt" => currentContext = Null
    /\ calls \in {<<>>, <<"createChatCompletion">>,
                  <<"createChatCompletion", "getCoordinatesForCity">>,
                  <<"createChatCompletion", "getCoordinatesForCity",
                    "getWeatherForCoordinates">>}
    /\ "getCoordinatesForCity" \in Range(calls) => Replied
    /\ "getWeatherForCoordinates" \in Range(calls) => geoResult # NullResult

C8_Witness ==
    /\ pc = "prompt"
    /\ contextArg # Null
    /\ cityToFetch # Null
    /\ geoResult = NullResult
    /\ result.type = "info"
    /\ currentContext = Null

\* the selector has run
Selected == pc \in {"loopTop", "mainFailed"}
RecognizedNames ==
    {<<"o","p","e","n","a","i">>, <<"d","e","e","p","s","e","e","k">>,
     <<"g","e","m","i","n","i">>}
LowerName == IF providerArg = NoFlag THEN NoFlag ELSE ToLowerCase(SecondField(providerArg))

\* C9 (as stated): for every provider name and for the missing flag the
\* selector never throws and returns a usable adapter; an unrecognized or
\* empty name gives the adapter of the missing-flag case (OpenAI).
C9_SelectorNeverThrows ==
    Selected =>
        /\ pc # "mainFailed"
        /\ aiProvider \in Providers
        /\ LowerName \notin RecognizedNames => aiProvider = "OpenAI"

\* C9 (amended): the selector throws exactly when the name is "gemini" (in
\* any letter case) and GEMINI_API_KEY is not set; otherwise it returns the
\* adapter of the recognized name, and for an unrecognized or empty name the
\* adapter of the missing-flag case (OpenAI).
C9_SelectorThrowsOnlyForGeminiKey ==
    Selected =>
        /\ pc = "mainFailed"
              <=> (LowerName = <<"g","e","m","i","n","i">> /\ "GEMINI_API_KEY" \notin env)
        /\ pc = "loopTop" =>
              /\ aiProvider \in Providers
              /\ LowerName = <<"g","e","m","i","n","i">> <=> aiProvider = "Gemini"
              /\ LowerName = <<"d","e","e","p","s","e","e","k">> <=> aiProvider = "Deepseek"
              /\ LowerName \notin RecognizedNames => aiProvider = "OpenAI"

C9_Witness ==
    /\ pc = "loopTop"
    /\ providerArg = <<"c","l","a","u","d","e">>
    /\ "GEMINI_API_KEY" \notin env
    /\ aiProvider = "OpenAI"

\* newline-joined texts of msgs[i..j]
RECURSIVE JoinTexts(_, _, _)
JoinTexts(msgs, i, j) ==
    IF i = j THEN msgs[i].content
    ELSE msgs[i].content \o <<"\n">> \o JoinTexts(msgs, i + 1, j)

\* the turns of the maximal runs of consecutive same-role messages
RECURSIVE RunTurns(_)
RunTurns(msgs) ==
    IF msgs = <<>> THEN <<>>
    ELSE LET k == CHOOSE n \in 1..Len(msgs) :
                     /\ \A m \in 1..n : msgs[m].role = msgs[1].role
                     /\ n = Len(msgs) \/ msgs[n + 1].role # msgs[1].role
         IN  <<[role |-> IF msgs[1].role = "assistant" THEN "model" ELSE "user",
                text |-> JoinTexts(msgs, 1, k)]>>
             \o RunTurns(SubSeq(msgs, k + 1, Len(msgs)))

Alternates(turns) == \A i \in 1..(Len(turns) - 1) : turns[i].role # turns[i + 1].role

\* C10 (as stated): the translation drops the system messages, maps
\* assistant to `model` and keeps user, has no two adjacent turns of one
\* role, and each turn's text is the newline-joined texts of a maximal run
\* of consecutive same-role source messages.
C10_TranslationIsRuns ==
    pc = "translated" =>
        /\ history = RunTurns(SelectSeq(messages, LAMBDA m : m.role # "system"))
        /\ Alternates(history)

\* C10 (amended): the same, with the runs taken over the source messages
\* that are neither system messages nor messages with an empty text: a
\* message with an empty text is dropped like a system message.
C10_TranslationIsRunsOfNonEmpty ==
    pc = "translated" =>
        /\ history = RunTurns(SelectSeq(messages,
                         LAMBDA m : m.role # "system" /\ m.content # <<>>))
        /\ Alternates(history)
        /\ \A i \in 1..Len(history) : history[i].role \in {"user", "model"}

C10_Witness ==
    /\ pc = "translated"
    /\ messages = <<[role |-> "system", content |-> <<"C">>],
                    [role |-> "user", content |-> <<"A">>],
                    [role |-> "user", content |-> <<"B">>],
                    [role |-> "assistant", content |-> <<"C">>]>>
    /\ history = <<[role |-> "user", text |-> <<"A", "\n", "B">>],
                   [role |-> "model", text |-> <<"C">>]>>

\* C11: the Gemini adapter's completion and streaming completion throw without
\* any request to the backend when the translated history is empty or its last
\* turn is not a user turn with text; otherwise every request carries the last
\* turn's text as the message and all earlier turns as the chat history.
C11_FinalTurnGuardsDispatch ==
    (adapter = "Gemini" /\ pc # "call") =>
        LET translated == translateToGeminiMessages(messages)
            n == Len(translated)
        IN  IF n = 0 \/ translated[n].role # "user" \/ translated[n].text = <<>>
            THEN status = "threw" /\ sent = <<>> /\ pc = "done"
            ELSE /\ sent # <<>>
                 /\ \A i \in 1..Len(sent) :
                       /\ sent[i].message = translated[n].text
                       /\ sent[i].history = SubSeq(translated, 1, n - 1)

\* a history that ends with a model turn is refused, nothing was sent
C11_Witness ==
    /\ adapter = "Gemini"
    /\ pc = "done"
    /\ status = "threw"
    /\ sent = <<>>
    /\ Len(history) = 2
    /\ history[2].role = "model"

IsPrefix(s, t) == Len(s) <= Len(t) /\ SubSeq(t, 1, Len(s)) = s

\* C12: every ChatResponse the Gemini generator yields carries the whole text
\* accumulated so far, so each yielded content is a prefix of the next, and
\* once the generator has returned its last element is the only one with
\* usage counts.
C12_YieldsAreAccumulated ==
    (adapter = "Gemini" /\ streaming) =>
        /\ \A i \in 1..(Len(yielded) - 1) :
              IsPrefix(yielded[i].content, yielded[i + 1].content)
        /\ status = "returned" =>
              /\ yielded # <<>>
              /\ \A i \in 1..Len(yielded) : yielded[i].usage <=> (i = Len(yielded))

\* C13: for every adapter a completion whose backend reply has no message
\* content throws, and a completion that returns gives a content that is a
\* string.
C13_NullContentFails ==
    (pc = "done" /\ ~streaming /\ adapter \in Providers) =>
        /\ reply = Null => status = "threw"
        /\ status = "returned" => response.content # Null

\* C20: the Deepseek generator makes one request; when the completion returns
\* it yields exactly that ChatResponse and ends, and when the completion
\* throws it yields nothing and throws.
C20_DeepseekStreamIsCompletion ==
    (adapter = "Deepseek" /\ streaming /\ pc = "done") =>
        /\ Len(sent) = 1
        /\ LET completion == CompletionOf("Deepseek", reply)
           IN  IF completion.kind = "returned"
               THEN status = "returned" /\ yielded = <<completion.response>>
               ELSE status = "threw" /\ yielded = <<>>

C20_Witness ==
    /\ adapter = "Deepseek"
    /\ streaming
    /\ pc = "done"
    /\ status = "returned"
    /\ Len(yielded) = 1
    /\ yielded[1].content = <<"A">>

\* C14: the descriptor of every adapter lists at least one model and the
\* classifier requests the first one; when a descriptor lists none the
\* classifier holds the sentinel model id and dispatches no completion
\* request with it.
C14_SentinelNeverDispatched ==
    /\ aiProvider \in Providers =>
          \A supportedModels \in SupportedModelsOf(aiProvider) :
              /\ supportedModels # <<>>
              /\ calls # <<>> => modelToUse = supportedModels[1]
    /\ modelToUse = "default-model-error" => "createChatCompletion" \notin Range(calls)

UnknownCode(c) == <<"Unknown (", ToString(c), ")">>

\* C15: the interpreter gives a clear or cloud phrase for 0..3, fog for
\* 45..48, a drizzle variant for 51..57, a rain variant for 61..67, a snow
\* variant for 71..77, a shower variant for 80..86, "Thunderstorm" for 95..99
\* and "Unknown (c)" for every other code c.
C15_WholeRanges ==
    pc = "interpreted" =>
        /\ description # <<>>
        /\ code = 0 => description = <<"Clear sky">>
        /\ code \in 0..3 => description \in {<<"Clear sky">>, <<"Mainly clear">>,
                                             <<"Partly cloudy">>, <<"Overcast">>}
        /\ code \in 45..48 => description = <<"Fog">>
        /\ code \in 51..57 => description \in {<<"Drizzle">>, <<"Freezing Drizzle">>}
        /\ code \in 61..67 => description \in {<<"Rain">>, <<"Freezing Rain">>}
        /\ code \in 71..77 => description \in {<<"Snow fall">>, <<"Snow grains">>}
        /\ code \in 80..86 => description \in {<<"Rain showers">>, <<"Snow showers">>}
        /\ code \in 95..99 => description = <<"Thunderstorm">>
        /\ code \notin (0..3) \cup (45..48) \cup (51..57) \cup (61..67)
                       \cup (71..77) \cup (80..86) \cup (95..99)
              => description = UnknownCode(code)

\* C15 as the code has it: the snow variants are 71..75 and 77, the shower
\* variants 80..82 and 85..86; 76, 83 and 84 are unknown codes like any other.
C15_RangesWithGaps ==
    pc = "interpreted" =>
        /\ description # <<>>
        /\ code = 0 => description = <<"Clear sky">>
        /\ code = 1 => description = <<"Mainly clear">>
        /\ code = 2 => description = <<"Partly cloudy">>
        /\ code = 3 => description = <<"Overcast">>
        /\ code \in 45..48 => description = <<"Fog">>
        /\ code \in 51..55 => description = <<"Drizzle">>
        /\ code \in 56..57 => description = <<"Freezing Drizzle">>
        /\ code \in 61..65 => description = <<"Rain">>
        /\ code \in 66..67 => description = <<"Freezing Rain">>
        /\ code \in 71..75 => description = <<"Snow fall">>
        /\ code = 77 => description = <<"Snow grains">>
        /\ code \in 80..82 => description = <<"Rain showers">>
        /\ code \in 85..86 => description = <<"Snow showers">>
        /\ code \in 95..99 => description = <<"Thunderstorm">>
        /\ code \notin (0..3) \cup (45..48) \cup (51..57) \cup (61..67)
                       \cup (71..75) \cup {77} \cup (80..82) \cup (85..86) \cup (95..99)
              => description = UnknownCode(code)

C15_Witness ==
    /\ pc = "interpreted"
    /\ code = 84
    /\ description = <<"Unknown (", "84", ")">>

\* a reply that holds a recipe of the required shape
GoodRecipeReply(r) ==
    /\ r.kind = "text" /\ r.parses /\ r.data.type = "object"
    /\ r.data.members.title = "string" /\ r.data.members.calories = "number"
    /\ r.data.members.ingredients = "strings" /\ r.data.members.steps = "strings"

AppOver == pc \in {"returned", "mainDone"}

\* C16: when every attempt of getRecipeJson fails, whatever the mix of
\* failures, it has made exactly 3 backend calls and returns null; it never
\* makes a fourth call and never throws.
C16_ThreeCallsThenNull ==
    app = "recipe" =>
        /\ apiCalls <= 3
        /\ recipeJson # ThrewError
        /\ (AppOver /\ replies # <<>> /\ \A i \in 1..Len(replies) : ~GoodRecipeReply(replies[i]))
              => (apiCalls = 3 /\ Len(replies) = 3 /\ recipeJson = NullResult)

\* a rejected call, a text that does not parse and a recipe of the wrong shape
C16_Witness ==
    /\ app = "recipe"
    /\ pc = "mainDone"
    /\ Len(replies) = 3
    /\ replies[1].kind = "rejected"
    /\ replies[2].kind = "text" /\ ~replies[2].parses
    /\ replies[3].kind = "text" /\ replies[3].parses /\ replies[3].data.type = "object"
    /\ recipeJson = NullResult
    /\ printed = "Failed to generate a valid recipe JSON after multiple attempts."

\* a reply that resolved with a text that does not parse or has the wrong shape
Malformed(r) ==
    /\ r.kind = "text"
    /\ IF app = "recipe" THEN ~GoodRecipeReply(r)
       ELSE \/ ~r.parses
            \/ r.data.members.flashcards = "missing"
            \/ r.data.members.metadata = "missing"

\* C17: in the recipe creator and in the flashcard generator a malformed
\* response is followed by another attempt while fewer than 3 attempts were
\* made, and the app that gives up prints a failure message and raises
\* nothing past main.
C17_MalformedIsRetried ==
    (app \in {"recipe", "flashcards"} /\ AppOver /\ replies # <<>>
        /\ Malformed(replies[Len(replies)]))
      => /\ apiCalls = 3
         /\ pc = "mainDone" =>
               printed \in {"Failed to generate a valid recipe JSON after multiple attempts.",
                            "Error:"}

InWeatherTurn == pc \in {"awaitCompletion", "awaitGeocode", "awaitWeather"}
InStoryTurn == pc \in {"storyAwait", "storyStream"}

\* C18: in the weather app and in the storytelling app a turn, failed or
\* not, is always followed by the prompt, and the loop is left only from the
\* prompt, on a line that says /quit.
C18_FailedTurnKeepsLoop ==
    [][ /\ InWeatherTurn => pc' \in {"awaitCompletion", "awaitGeocode",
                                      "awaitWeather", "returned"}
        /\ pc = "returned" => pc' = "prompt"
        /\ InStoryTurn => pc' \in {"storyAwait", "storyStream", "storyPrompt"}
        /\ (pc' = "exited" /\ pc # "exited")
              => (pc = "prompt" /\ ToLowerCase(userInput') = QUIT)
        /\ (pc' = "storyEnded" /\ pc # "storyEnded")
              => (pc = "storyPrompt" /\ ToLowerCase(Trim(userInput')) = QUIT)
        /\ pc' \in {"loopTop", "awaitCompletion", "awaitGeocode", "awaitWeather",
                    "returned", "prompt", "exited",
                    "storyPrompt", "storyAwait", "storyStream", "storyEnded"}
      ]_vars

\* the storytelling app is back at its prompt after a turn that gave no
\* sentence: the last message of the transcript is the user's
C18_Witness ==
    /\ pc = "storyPrompt"
    /\ Len(messages) = 3
    /\ messages[2].role = "user"
    /\ messages[3].role = "user"

\* the environment variables the adapter class needs
RequiredBy(class) ==
    CASE class = "OpenAI" -> {"OPENAI_API_KEY"}
      [] class = "Deepseek" -> {"DEEPSEEK_API_KEY", "DEEPSEEK_BASE_URL"}
      [] class = "Gemini" -> {"GEMINI_API_KEY"}

\* a credential of the backend named on the command line is not set
MissingCredential ==
    ~(RequiredBy(ProviderClassOf(ProviderNameOf(providerArg))) \subseteq env)

\* C19: when the credential of the selected backend is missing, the app never
\* reaches its interactive loop (no prompt, no completion request), and the
\* error is reported and the process ends.
C19_MissingCredentialEndsProcess ==
    /\ [](MissingCredential => pc # "loopTop")
    /\ MissingCredential ~> (pc = "processExited" /\ stderr # <<>>)

\* without the credential the interactive loop is never entered
NoLoopWithoutCredential == MissingCredential => pc # "loopTop"

\* the words of an input, as the claim counts them
WordsOf(input) == SplitWs(Trim(input))

\* word i starts with A-Z and is not a stop word in first place
Counts(words, i) ==
    /\ words[i] # <<>>
    /\ words[i][1] \in Range(Uppers)
    /\ ~(i = 1 /\ ToLowerCase(words[1]) \in commonStarts)

\* the maximal runs <<a, b>> of words that count
CandidateRuns(words) ==
    { r \in (1..Len(words)) \X (1..Len(words)) :
        /\ r[1] <= r[2]
        /\ \A i \in r[1]..r[2] : Counts(words, i)
        /\ r[1] = 1 \/ ~Counts(words, r[1] - 1)
        /\ r[2] = Len(words) \/ ~Counts(words, r[2] + 1) }

RECURSIVE CharsOf(_, _, _)
\* the characters of words a..b joined by single spaces
CharsOf(words, a, b) ==
    IF a > b THEN 0
    ELSE Len(words[a]) + (IF a < b THEN 1 ELSE 0) + CharsOf(words, a + 1, b)

\* the run with the most characters, the earliest one on a tie
LongestRun(words) ==
    CHOOSE r \in CandidateRuns(words) :
        \A q \in CandidateRuns(words) :
            \/ CharsOf(words, r[1], r[2]) > CharsOf(words, q[1], q[2])
            \/ /\ CharsOf(words, r[1], r[2]) = CharsOf(words, q[1], q[2])
               /\ r[1] <= q[1]

\* C21: extractCityNameSimple returns null iff the input has no maximal run
\* of capitalized words (a stop word in first place not counting), and
\* otherwise the run with the most characters, the earliest one on a tie.
C21_LongestEarliestRun ==
    pc = "extracted" =>
        LET words == WordsOf(userInput)
        IN  IF CandidateRuns(words) = {}
            THEN cityToFetch = Null
            ELSE LET r == LongestRun(words)
                 IN  /\ cityToFetch # Null
                     /\ SplitWs(cityToFetch) = SubSeq(words, r[1], r[2])
                     /\ Len(cityToFetch) = CharsOf(words, r[1], r[2])

\* a tie between two candidates: the earlier one is returned
C21_Witness ==
    /\ pc = "extracted"
    /\ WordsOf(userInput) = << <<"O","s","l","o">>, <<"i","n">>,
                               <<"R","o","m","e">> >>
    /\ cityToFetch = <<"O","s","l","o">>

\* the line is handled as a /temp command (weather-service.ts 232-236)
IsTempCommand(line) ==
    ToLowerCase(Trim(line)) # QUIT /\ StartsWith(Trim(line), TEMP)

\* a decimal numeral: an optional sign, digits with at most one point among
\* them, at least one digit, and nothing else
IsNumeral(s) ==
    LET body == IF s # <<>> /\ s[1] \in {"-", "+"} THEN Tail(s) ELSE s
    IN  /\ \E i \in 1..Len(body) : IsDigit(body[i])
        /\ \A i \in 1..Len(body) : IsDigit(body[i]) \/ body[i] = "."
        /\ Cardinality({i \in 1..Len(body) : body[i] = "."}) <= 1

\* the argument of the command is missing, not a number, or out of [0.0, 2.0]
BadTempArgument(line) ==
    LET parts == SplitSpace(Trim(line))
    IN  \/ Len(parts) < 2
        \/ ~IsNumeral(parts[2])
        \/ ParseFloat(parts[2]).tenths \notin 0..20

\* C22: a /temp command keeps the temperature within [0.0, 2.0], appends
\* nothing to the transcript, dispatches no request, and leaves the
\* temperature unchanged when its argument is missing, non-numeric or out of
\* range.
C22_TempCommandIsSafe ==
    [][pc = "storyPrompt" /\ IsTempCommand(userInput') =>
          /\ currentTemperature' \in 0..20
          /\ messages' = messages
          /\ pc' = "storyPrompt"
          /\ BadTempArgument(userInput') => currentTemperature' = currentTemperature]_vars

\* the same with the argument read as parseFloat reads it: a text with no
\* numeric prefix is the non-numeric one
TempCommandIsSafeByPrefix ==
    [][pc = "storyPrompt" /\ IsTempCommand(userInput') =>
          /\ currentTemperature' \in 0..20
          /\ messages' = messages
          /\ pc' = "storyPrompt"
          /\ LET parts == SplitSpace(Trim(userInput'))
             IN  (\/ Len(parts) < 2
                  \/ ParseFloat(parts[2]).nan
                  \/ ParseFloat(parts[2]).tenths \notin 0..20)
                 => currentTemperature' = currentTemperature]_vars

\* the temperature never leaves [0.0, 2.0]
TemperatureInRange == currentTemperature \in 0..20

\* a blank line was entered at the prompt: part_005 216-219 leaves '' in
\* userInput, and only the first turn turns '' into the greeting
BlankLineTurn == pc # "loopTop" /\ userInput = <<>> /\ inputForAI = <<>>

\* C23: a blank line at the prompt makes the app ask again: no completion
\* request is dispatched for it and the context stays as it was.
C23_BlankLineAsksAgain ==
    [][/\ pc = "prompt" /\ userInput' = <<>> =>
             pc' = "prompt" /\ calls' = calls
       /\ BlankLineTurn => currentContext' = currentContext]_vars

\* the context half on its own: a turn run for a blank line keeps the context
BlankLineKeepsContext ==
    [][BlankLineTurn => currentContext' = currentContext]_vars

\* the reply begins with the trigger phrase but carries no location: there
\* is no ellipsis in it, or the ellipsis follows the phrase and its space
\* at once
TriggerWithoutName(text) ==
    /\ Len(text) >= 1 /\ text[1] = TRIGGER
    /\ \/ ELLIPSIS \notin Range(text)
       \/ Len(text) >= 3 /\ text[2] = " " /\ text[3] = ELLIPSIS

\* the type the claim's priority gives
TypeByPriority(text, context) ==
    IF WHICH \in Range(text) THEN "question"
    ELSE IF context # Null /\ context # <<>> /\ ~(Len(text) >= 1 /\ text[1] = TRIGGER)
         THEN "answer"
         ELSE "info"

\* C24: when no location is pursued the outcome is `question` for a reply
\* containing "Which city", else `answer` iff a context is held and the
\* fetch-trigger did not fire, else `info`, and it carries the reply text;
\* when the fetch-trigger fires without a location the heuristic location is
\* not used, no lookup is made and the outcome is never `answer`.
C24_ClassificationPriority ==
    /\ (TurnOver /\ Replied /\ cityToFetch = Null)
          => /\ result.type = TypeByPriority(aiResponseText, contextArg)
             /\ result.text = aiResponseText
             /\ calls = <<"createChatCompletion">>
    /\ (Replied /\ TriggerWithoutName(aiResponseText))
          => /\ cityToFetch = Null
             /\ calls = <<"createChatCompletion">>
             /\ pc \in {"returned", "prompt", "exited"}
             /\ result.type \in {"question", "info"}

\* a question asked while a context is held
C24_Witness ==
    /\ pc = "prompt" /\ Replied
    /\ contextArg # Null
    /\ WHICH \in Range(aiResponseText)
    /\ ~FetchTriggerOf(aiResponseText)
    /\ result.type = "question"

\* the trigger without a location, the user text naming one, no context held
TriggerWithoutNameWitness ==
    /\ pc = "prompt" /\ Replied
    /\ contextArg = Null
    /\ TriggerWithoutName(aiResponseText)
    /\ extractCityNameSimple(inputForAI) # Null
    /\ cityToFetch = Null
    /\ result.type = "info"

\* getRecipeJson has been called
RecipeAsked ==
    /\ app = "recipe"
    /\ pc # "start"
    /\ printed # "No dish name provided. Exiting."

\* C25: getRecipeJson returns the recipe of the first attempt whose response
\* parses and passes validation and makes no call after it; it makes between
\* 1 and 3 backend calls; the delay is taken only after a failed attempt that
\* another attempt follows, never after the third attempt or after a success.
C25_FirstGoodAttemptEndsLoop ==
    RecipeAsked =>
        /\ apiCalls \in 1..3
        /\ Len(replies) \in {apiCalls - 1, apiCalls}
        /\ \A i \in 1..(Len(replies) - 1) : ~GoodRecipeReply(replies[i])
        /\ (replies # <<>> /\ GoodRecipeReply(replies[Len(replies)]))
              => /\ pc \in {"returned", "mainDone"}
                 /\ recipeJson = replies[Len(replies)].data
                 /\ apiCalls = Len(replies)
        /\ pc = "delay"
              => /\ apiCalls \in 1..2
                 /\ Len(replies) = apiCalls
                 /\ ~GoodRecipeReply(replies[apiCalls])
                 /\ retries = 3 - apiCalls
        /\ pc = "awaitApi" => Len(replies) = apiCalls - 1

\* the delay is always followed by the next call
DelayThenCall ==
    [][pc = "delay" => pc' = "awaitApi" /\ apiCalls' = apiCalls + 1]_vars

\* two failures, two delays, then a recipe on the third attempt
C25_Witness ==
    /\ app = "recipe"
    /\ pc = "mainDone"
    /\ Len(replies) = 3
    /\ ~GoodRecipeReply(replies[1]) /\ ~GoodRecipeReply(replies[2])
    /\ GoodRecipeReply(replies[3])
    /\ recipeJson = replies[3].data
    /\ printed = "--- Generated Recipe JSON ---"

\* C26: one streaming completion call on the Gemini adapter sends the final
\* user message to the backend exactly once.
C26_FinalMessageSentOnce ==
    (adapter = "Gemini" /\ streaming)
        => /\ Len(sent) <= 1
           /\ (pc = "done" /\ status = "returned") => Len(sent) = 1

\* C27: with the Gemini adapter, what a turn of the weather classifier hands
\* to the backend is the same with the context it holds as with none: the
\* translated messages are equal, and when the final-turn check passes the
\* request has no prior turns and the user input as its message.
C27_ContextNeverReachesGemini ==
    (aiProvider = "Gemini" /\ pc = "awaitCompletion") =>
        LET withContext ==
                translateToGeminiMessages(TurnMessages(inputForAI, contextArg))
            without ==
                translateToGeminiMessages(TurnMessages(inputForAI, Null))
        IN  /\ withContext = without
            /\ GeminiFinalOk(withContext) = GeminiFinalOk(without)
            /\ GeminiFinalOk(withContext)
                  => /\ GeminiRequest(withContext) = GeminiRequest(without)
                     /\ GeminiRequest(withContext).history = <<>>
                     /\ GeminiRequest(withContext).message = inputForAI

\* a turn dispatched to Gemini while a context is held
C27_Witness ==
    /\ aiProvider = "Gemini"
    /\ pc = "awaitCompletion"
    /\ contextArg # Null
    /\ inputForAI # <<>>
    /\ GeminiFinalOk(translateToGeminiMessages(TurnMessages(inputForAI, contextArg)))

\* a variable the module bodies read is not set
LoadVariableMissing ==
    \E v \in {"OPENAI_API_KEY", "DEEPSEEK_API_KEY", "DEEPSEEK_BASE_URL"} : v \notin env

\* the process failed while its modules were loading
LoadFailed == pc = "loadFailed" \/ "Uncaught Error" \in Range(stderr)

\* getSelectedProvider was entered
SelectorRan == pc \in {"mainRejected", "loopTop", "idle"} \/ aiProvider # "none"
                  \/ "Unhandled error in main:" \in Range(stderr)
                  \/ "Unhandled Rejection" \in Range(stderr)

GeminiNamed == ProviderNameOf(providerArg) = <<"g","e","m","i","n","i">>

\* C28: in the weather app and in the flashcard generator the start fails
\* while the modules load, before the selector runs, exactly when
\* OPENAI_API_KEY, DEEPSEEK_API_KEY or DEEPSEEK_BASE_URL is not set, whatever
\* provider is selected; GEMINI_API_KEY is required only when Gemini is
\* selected.
C28_LoadNeedsThreeVariables ==
    pc # "load" =>
        /\ LoadFailed <=> LoadVariableMissing
        /\ LoadFailed => ~SelectorRan /\ ~rlOpen
        /\ pc # "main" =>
              (SelectorRan /\ aiProvider = "none")
                  <=> (~LoadVariableMissing /\ GeminiNamed
                       /\ "GEMINI_API_KEY" \notin env)

\* OpenAI is selected and its key is set, the start fails for DeepSeek's URL
C28_Witness ==
    /\ pc = "processExited"
    /\ providerArg = <<"o","p","e","n","a","i">>
    /\ env = {"OPENAI_API_KEY", "DEEPSEEK_API_KEY", "GEMINI_API_KEY"}
    /\ LoadFailed
    /\ program = "flashcard-forge"

\* a line that is neither blank nor a command
IsStoryLine(line) ==
    /\ Trim(line) # <<>>
    /\ ToLowerCase(Trim(line)) # QUIT
    /\ ~StartsWith(Trim(line), TEMP)

\* the shape of a transcript: the system message first, then user and
\* assistant messages with text, each assistant message right after a user one
TranscriptOk(msgs) ==
    /\ Len(msgs) >= 1
    /\ msgs[1] = [role |-> "system", content |-> storySystem]
    /\ \A i \in 2..Len(msgs) :
          /\ msgs[i].role \in {"user", "assistant"}
          /\ msgs[i].content # <<>>
          /\ msgs[i].content = Trim(msgs[i].content)
          /\ msgs[i].role = "assistant" => msgs[i - 1].role = "user"

\* the turn ends without a usable reply: the request or the stream failed, or
\* the streamed text is blank
ReplyFailedOrEmpty ==
    /\ pc \in {"storyAwait", "storyStream"}
    /\ pc' = "storyPrompt"
    /\ \/ pc = "storyAwait"
       \/ chunks # <<>>
       \/ Trim(aiSentence) = <<>>

\* C29: the storytelling transcript only grows, by one message at a time;
\* it begins with the system message and every assistant message follows a
\* user message; a user message is appended only for a line that is neither
\* blank nor a command; a failed or empty reply appends nothing and leaves
\* the user message in place.
C29_TranscriptGrowsInTurns ==
    [][/\ TranscriptOk(messages')
       /\ IsPrefix(messages, messages')
       /\ Len(messages') <= Len(messages) + 1
       /\ (messages' # messages /\ messages'[Len(messages')].role = "user")
             => /\ pc = "storyPrompt"
                /\ IsStoryLine(userInput')
                /\ messages'[Len(messages')].content = Trim(userInput')
       /\ (pc = "storyPrompt" /\ ~IsStoryLine(userInput')) => messages' = messages
       /\ (messages' # messages /\ messages'[Len(messages')].role = "assistant")
             => /\ pc = "storyStream" /\ chunks = <<>>
                /\ messages'[Len(messages')].content = Trim(aiSentence)
       /\ ReplyFailedOrEmpty
             => /\ messages' = messages
                /\ messages[Len(messages)].role = "user"]_vars

\* a failed turn, then a turn with a reply: two user messages and an assistant
C29_Witness ==
    /\ pc = "storyPrompt"
    /\ Len(messages) = 4
    /\ messages[2].role = "user"
    /\ messages[3].role = "user"
    /\ messages[4].role = "assistant"

\* part_001 123-126: the condition of the "adjusting chat history" warning
WarningBranch(chatHistory) ==
    Len(chatHistory) > 0 /\ chatHistory[Len(chatHistory)].role # "model"

====
